---- MODULE Spec2Model ----
(***************************************************************************)
(* Financial computation engine of the bookkeeping application:            *)
(* calculateKiaDeduction, calculateBookValue, VatReturnView.calculate and  *)
(* App.loadSummary (src/App.tsx), over the value types of the data layer.  *)
(*                                                                         *)
(* Numbers.  The program computes in IEEE doubles; the model computes the  *)
(* same expressions exactly, in decimal fixed point.  Stored amounts       *)
(* (line.amount, vatAmount, amountExcl, purchaseValue, residualValue) are  *)
(* whole euros.  Every value obtained by multiplying with a decimal        *)
(* constant (0.28, 0.0756, 0.21, 0.09) is carried in ticks of 1/10000     *)
(* euro, so that all these products are exact integers.                    *)
(***************************************************************************)
EXTENDS Integers, Sequences, FiniteSets

VARIABLES
    total,        \* SpecKia: the total investment amount handed to calculateKiaDeduction (euros)
    kiaPrev,      \* SpecKia: Some(deduction computed for total - 1, in ticks), or None
    kiaOut,       \* SpecKia: Some(deduction computed for total, in ticks), or None
    bookInv,      \* SpecBook: the Investment handed to calculateBookValue
    bookNow,      \* SpecBook: the instant new Date() returns, in time units since the epoch
    bookOut,      \* SpecBook: Some(book value returned, a fraction of euros), or None
    invoices,     \* data store: the rows DataService.getInvoices() yields
    expenses,     \* data store: the rows DataService.getExpenses() yields
    investments,  \* data store: the rows DataService.getInvestments() yields
    correctionSetting, \* data store: the 'company_value_correction' setting, Some(euros) or None
    client,       \* whether the supabase client is configured
    dbInvoices,   \* database: the data of the invoices query, Some(rows) or None for null
    dbExpenses,   \* database: the data of the expenses query, Some(rows) or None for null
    dbInvestments, \* database: the data of the investments query, Some(rows) or None for null
    session,      \* App: whether a session is held
    activeTab,    \* App: the tab shown
    summary,      \* App: the FinancialSummary (money in ticks)
    year,         \* VatReturnView: the selected year (0 while the view is not mounted)
    quarter,      \* VatReturnView: the selected quarter (0 while the view is not mounted)
    report,       \* VatReturnView: Some(VatReport) (money in ticks), or None
    kiaStats,     \* VatReturnView: Some([total (euros), deduction (ticks)]), or None
    coSummary,    \* CompanyInfoView: profit, investments and vatTotal of its summary prop
    coCorrection, \* CompanyInfoView: the correction held by the view
    shareholders, \* CompanyInfoView: the defaultPercentage of each shareholder, in order
    companyOut,   \* CompanyInfoView: Some(what a render computes), or None
    formAmount,   \* upload forms: the amount typed (amountInput, totalInput), in cents
    formIncluded, \* upload forms: vatIncluded
    formRate,     \* upload forms: vatRate
    formNet,      \* upload forms: Some(the net amount typed first) once its gross is fed back
    expenseCalculated, \* ExpensesView: Some(calculated), or None
    invoiceCalculated, \* InvoicesView: Some(calculated), or None
    pending,      \* App: the loadSummary runs in flight, in the order they were started
    event,        \* App: what the last step did to a loadSummary run
    calcs,        \* VatReturnView: the calculate runs in flight, in the order they were started
    view,         \* upload views: 'LIST' or 'NEW' of the view that is mounted
    formText,     \* upload forms: form.description, or form.companyId of the invoice form
    invType,      \* InvoicesView: invType
    listInvoices, \* InvoicesView: the invoices it holds (empty while it is not mounted)
    saveOutcome,  \* upload views: what the last step did as a save: none, rejected, saved, failed
    qDate,        \* SpecQuarters: the date of an invoice and an expense
    qYear,        \* SpecQuarters: the year of the VAT returns
    qReports,     \* SpecQuarters: Some(the four quarterly reports of qYear), or None
    ai,           \* geminiService: the client, Some(client) or None for null
    adviceCalls,  \* geminiService: the prompts of the generateContent calls in flight
    adviceSettled \* geminiService: how the promise of the last getFinancialAdvice call settled

kiaVars == <<total, kiaPrev, kiaOut>>
bookVars == <<bookInv, bookNow, bookOut>>
dbVars == <<client, dbInvoices, dbExpenses, dbInvestments>>
storeVars == <<invoices, expenses, investments, correctionSetting, dbVars>>
vatVars == <<year, quarter, report, kiaStats>>
appVars == <<storeVars, session, activeTab, summary, vatVars>>
companyVars == <<coSummary, coCorrection, shareholders, companyOut>>
formVars == <<formAmount, formIncluded, formRate, formNet, expenseCalculated, invoiceCalculated>>
runVars == <<pending, event>>
calcVars == <<calcs>>
saveVars == <<view, formText, invType, listInvoices, saveOutcome>>
quarterVars == <<qDate, qYear, qReports>>
adviceVars == <<ai, adviceCalls, adviceSettled>>
uiVars == <<runVars, calcVars, saveVars, quarterVars, adviceVars>>
\* the variables of uiVars that the steps of one view leave alone
besidesRun == <<calcVars, saveVars, quarterVars, adviceVars>>
besidesCalc == <<runVars, saveVars, quarterVars, adviceVars>>
besidesSave == <<runVars, calcVars, quarterVars, adviceVars>>
besidesQuarter == <<runVars, calcVars, saveVars, adviceVars>>
besidesAdvice == <<runVars, calcVars, saveVars, quarterVars>>
vars == <<kiaVars, bookVars, appVars, companyVars, formVars, uiVars>>

\* a value that may be null or absent: None, or Some(x)
None == <<>>
Some(x) == <<x>>
Get(o) == o[1]

\* ticks per euro: 1 tick = 0.0001 euro
Scale == 100 * 100

(***************************************************************************)
(* Strings are sequences of UTF-16 code units: '0'..'9' are 48..57 and     *)
(* '-' is 45.  JavaScript compares strings code unit by code unit, a       *)
(* proper prefix being the smaller.                                        *)
(***************************************************************************)
\* a < b, given that the code units before position i are equal
RECURSIVE StrLtFrom(_, _, _)
StrLtFrom(a, b, i) ==
    IF i > Len(b) THEN FALSE
    ELSE IF i > Len(a) THEN TRUE
    ELSE IF a[i] # b[i] THEN a[i] < b[i]
    ELSE StrLtFrom(a, b, i + 1)

StrLt(a, b) == StrLtFrom(a, b, 1)
StrLe(a, b) == ~StrLt(b, a)
StrGe(a, b) == ~StrLt(a, b)

\* String(n) of a non-negative integer: its decimal digits, no padding
RECURSIVE NumToStr(_)
NumToStr(n) == IF n < 10 THEN <<48 + n>> ELSE NumToStr(n \div 10) \o <<48 + (n % 10)>>

\* the decimal value of the digits s[from..to]
RECURSIVE StrToNum(_, _, _)
StrToNum(s, from, to) ==
    IF to < from THEN 0 ELSE StrToNum(s, from, to - 1) * 10 + (s[to] - 48)

\* the 'YYYY-MM-DD' string of a calendar date, as a date column or a date input yields it
Pad2(n) == <<48 + (n \div 10), 48 + (n % 10)>>
IsoDate(y, m, d) == NumToStr(y) \o <<45>> \o Pad2(m) \o <<45>> \o Pad2(d)

(***************************************************************************)
(* Time.  getTime() is in milliseconds; the model counts time in units of  *)
(* 3 hours, so that a day is 8 units and the year of 365.25 days that      *)
(* calculateBookValue divides by is 2922 units.                            *)
(***************************************************************************)
UnitsPerDay == 2 * 4
\* 1000 * 60 * 60 * 24 * 365.25 ms, in units
UnitsPerYear == (1461 * UnitsPerDay) \div 4

\* new Date('YYYY-MM-DD').getTime(): UTC midnight of that day, in units since 1970-01-01
DateGetTime(date) ==
    LET y0  == StrToNum(date, 1, 4)
        m   == StrToNum(date, 6, 7)
        d   == StrToNum(date, 9, 10)
        y   == IF m <= 2 THEN y0 - 1 ELSE y0
        era == y \div 400
        yoe == y - era * 400
        mp  == (m + 9) % 12
        doy == (153 * mp + 2) \div 5 + d - 1
        doe == yoe * 365 + yoe \div 4 - yoe \div 100 + doy
    IN  (era * 146097 + doe - 719468) * UnitsPerDay

(***************************************************************************)
(* Fractions: [num, den] with den > 0 stands for num / den.                *)
(***************************************************************************)
RECURSIVE GCD(_, _)
GCD(a, b) == IF b = 0 THEN a ELSE GCD(b, a % b)
Abs(n) == IF n < 0 THEN -n ELSE n
\* in lowest terms, so that equal fractions are equal records
Frac(n, d) == LET g == GCD(Abs(n), d) IN [num |-> n \div g, den |-> d \div g]
FracLe(a, b) == a.num * b.den <= b.num * a.den
\* Math.max(a, b)
FracMax(a, b) == IF FracLe(b, a) THEN a ELSE b
\* a + b, on the least common denominator
FracAdd(a, b) ==
    LET l == (a.den \div GCD(a.den, b.den)) * b.den
    IN  Frac(a.num * (l \div a.den) + b.num * (l \div b.den), l)
\* a - b
FracSub(a, b) == FracAdd(a, [b EXCEPT !.num = -b.num])
\* a * b, common factors removed before multiplying
FracMul(a, b) ==
    LET g1 == GCD(Abs(a.num), b.den)
        g2 == GCD(Abs(b.num), a.den)
    IN  Frac((a.num \div g1) * (b.num \div g2), (a.den \div g2) * (b.den \div g1))
\* a / b for b # 0
FracDiv(a, b) ==
    FracMul(a, IF b.num > 0 THEN [num |-> b.den, den |-> b.num]
               ELSE [num |-> -b.den, den |-> -b.num])

(***************************************************************************)
(* constants.ts                                                            *)
(***************************************************************************)
KIA_THRESHOLD_MIN == 2801
KIA_MIN_ITEM_VALUE == 450
KIA_BRACKET_1_MAX == 69765
KIA_BRACKET_2_MAX == 129194
KIA_BRACKET_3_MAX == 387580
\* 0.28: ticks per euro
KIA_PCT_LOW == (28 * Scale) \div 100
\* 19535 euro, in ticks
KIA_FIXED_MID == 19535 * Scale
\* 0.0756: ticks per euro
KIA_REDUCTION_PCT == (756 * Scale) \div 10000

(***************************************************************************)
(* Faulty variants of calculateKiaDeduction, one slip each; the properties *)
(* below are required to tell each of them from the function itself.       *)
(***************************************************************************)
\* bracket 1 closed with < instead of <=
calculateKiaDeduction_bracket1Exclusive(totalInvestments) ==
    IF totalInvestments < KIA_THRESHOLD_MIN THEN 0
    ELSE IF totalInvestments < KIA_BRACKET_1_MAX THEN totalInvestments * KIA_PCT_LOW
    ELSE IF totalInvestments <= KIA_BRACKET_2_MAX THEN KIA_FIXED_MID
    ELSE IF totalInvestments <= KIA_BRACKET_3_MAX THEN
        KIA_FIXED_MID - ((totalInvestments - KIA_BRACKET_2_MAX) * KIA_REDUCTION_PCT)
    ELSE 0

\* the threshold tested with <= instead of <
calculateKiaDeduction_thresholdInclusive(totalInvestments) ==
    IF totalInvestments <= KIA_THRESHOLD_MIN THEN 0
    ELSE IF totalInvestments <= KIA_BRACKET_1_MAX THEN totalInvestments * KIA_PCT_LOW
    ELSE IF totalInvestments <= KIA_BRACKET_2_MAX THEN KIA_FIXED_MID
    ELSE IF totalInvestments <= KIA_BRACKET_3_MAX THEN
        KIA_FIXED_MID - ((totalInvestments - KIA_BRACKET_2_MAX) * KIA_REDUCTION_PCT)
    ELSE 0

\* bracket 3 closed with < instead of <=
calculateKiaDeduction_bracket3Exclusive(totalInvestments) ==
    IF totalInvestments < KIA_THRESHOLD_MIN THEN 0
    ELSE IF totalInvestments <= KIA_BRACKET_1_MAX THEN totalInvestments * KIA_PCT_LOW
    ELSE IF totalInvestments <= KIA_BRACKET_2_MAX THEN KIA_FIXED_MID
    ELSE IF totalInvestments < KIA_BRACKET_3_MAX THEN
        KIA_FIXED_MID - ((totalInvestments - KIA_BRACKET_2_MAX) * KIA_REDUCTION_PCT)
    ELSE 0

\* bracket 3 without its upper limit: the reduction goes on above KIA_BRACKET_3_MAX
calculateKiaDeduction_bracket3Unbounded(totalInvestments) ==
    IF totalInvestments < KIA_THRESHOLD_MIN THEN 0
    ELSE IF totalInvestments <= KIA_BRACKET_1_MAX THEN totalInvestments * KIA_PCT_LOW
    ELSE IF totalInvestments <= KIA_BRACKET_2_MAX THEN KIA_FIXED_MID
    ELSE KIA_FIXED_MID - ((totalInvestments - KIA_BRACKET_2_MAX) * KIA_REDUCTION_PCT)

\* the reduction of bracket 3 taken over the whole total instead of the excess
calculateKiaDeduction_reducesWholeTotal(totalInvestments) ==
    IF totalInvestments < KIA_THRESHOLD_MIN THEN 0
    ELSE IF totalInvestments <= KIA_BRACKET_1_MAX THEN totalInvestments * KIA_PCT_LOW
    ELSE IF totalInvestments <= KIA_BRACKET_2_MAX THEN KIA_FIXED_MID
    ELSE IF totalInvestments <= KIA_BRACKET_3_MAX THEN
        KIA_FIXED_MID - (totalInvestments * KIA_REDUCTION_PCT)
    ELSE 0

(***************************************************************************)
(* calculateKiaDeduction(totalInvestments): euros in, ticks out.           *)
(***************************************************************************)
calculateKiaDeduction(totalInvestments) ==
    IF totalInvestments < KIA_THRESHOLD_MIN THEN 0
    ELSE IF totalInvestments <= KIA_BRACKET_1_MAX THEN totalInvestments * KIA_PCT_LOW
    ELSE IF totalInvestments <= KIA_BRACKET_2_MAX THEN KIA_FIXED_MID
    ELSE IF totalInvestments <= KIA_BRACKET_3_MAX THEN
        LET excess == totalInvestments - KIA_BRACKET_2_MAX
        IN  KIA_FIXED_MID - (excess * KIA_REDUCTION_PCT)
    ELSE 0

(***************************************************************************)
(* Faulty variants of calculateBookValue.                                  *)
(***************************************************************************)
\* depreciates the whole purchase value instead of purchase - residual
calculateBookValue_depreciatesToZero(inv, now) ==
    LET age == now - DateGetTime(inv.date)
        currentDepreciation == Frac(inv.purchaseValue * age, inv.lifespanYears * UnitsPerYear)
    IN  IF age >= inv.lifespanYears * UnitsPerYear THEN Frac(inv.residualValue, 1)
        ELSE FracMax(Frac(inv.residualValue, 1),
                     Frac(inv.purchaseValue * currentDepreciation.den - currentDepreciation.num,
                          currentDepreciation.den))

\* returns the depreciated value without Math.max
calculateBookValue_noFloor(inv, now) ==
    LET age == now - DateGetTime(inv.date)
        currentDepreciation ==
            Frac((inv.purchaseValue - inv.residualValue) * age, inv.lifespanYears * UnitsPerYear)
    IN  IF age >= inv.lifespanYears * UnitsPerYear THEN Frac(inv.residualValue, 1)
        ELSE Frac(inv.purchaseValue * currentDepreciation.den - currentDepreciation.num,
                  currentDepreciation.den)

(***************************************************************************)
(* calculateBookValue(inv), with the instant new Date() returns as `now`.  *)
(* The result is a fraction of euros.                                      *)
(***************************************************************************)
calculateBookValue(inv, now) ==
    LET purchaseDate == DateGetTime(inv.date)
        age == now - purchaseDate
        \* ageInYears = age / UnitsPerYear
        totalDepreciation == inv.purchaseValue - inv.residualValue
        \* annualDepreciation = totalDepreciation / lifespanYears
        \* currentDepreciation = annualDepreciation * ageInYears
        currentDepreciation == Frac(totalDepreciation * age, inv.lifespanYears * UnitsPerYear)
    IN  IF age >= inv.lifespanYears * UnitsPerYear THEN Frac(inv.residualValue, 1)
        ELSE FracMax(Frac(inv.residualValue, 1),
                     Frac(inv.purchaseValue * currentDepreciation.den - currentDepreciation.num,
                          currentDepreciation.den))

(***************************************************************************)
(* types.ts: the enum values the aggregators test.                         *)
(***************************************************************************)
SALES == "VERKOOP"
PURCHASE == "INKOOP"
DRAFT == "CONCEPT"
PAID == "BETAALD"
SENT == "VERSTUURD"
PARTIAL == "DEELS_BETAALD"
OVERDUE == "VERVALLEN"

\* constants.ts QUARTERS: id and range ['01', '03'] ... ['10', '12']
QUARTERS ==
    << [id |-> 1, range |-> <<Pad2(1), Pad2(3)>>],
       [id |-> 2, range |-> <<Pad2(4), Pad2(6)>>],
       [id |-> 3, range |-> <<Pad2(7), Pad2(9)>>],
       [id |-> 4, range |-> <<Pad2(10), Pad2(12)>>] >>

\* the sum of a sequence of numbers, left to right from 0
RECURSIVE SumSeq(_)
SumSeq(seq) == IF seq = <<>> THEN 0 ELSE SumSeq(SubSeq(seq, 1, Len(seq) - 1)) + seq[Len(seq)]

\* rows.reduce((sum, row) => sum + row[field], 0)
SumField(rows, field) == SumSeq([k \in DOMAIN rows |-> rows[k][field]])

\* i.lines.reduce((s, l) => s + l.amount, 0), in euros
InvoiceAmount(i) == SumField(i.lines, "amount")

\* i.lines.reduce((s, l) => s + (l.amount * l.vatRate / 100), 0), in ticks
InvoiceVat(i) ==
    SumSeq([k \in DOMAIN i.lines |-> (i.lines[k].amount * i.lines[k].vatRate * Scale) \div 100])

\* 0.21 and 0.09: ticks per euro
VatFactorHigh == (21 * Scale) \div 100
VatFactorLow == (9 * Scale) \div 100

\* the body of inv.lines.forEach in calculate, on the accumulators tHigh, vHigh, tLow, vLow
VatAddLine(acc, line) ==
    LET a1 == IF line.vatRate = 21
              THEN [acc EXCEPT !.tHigh = @ + line.amount * Scale,
                               !.vHigh = @ + line.amount * VatFactorHigh]
              ELSE acc
    IN  IF line.vatRate = 9
        THEN [a1 EXCEPT !.tLow = @ + line.amount * Scale,
                        !.vLow = @ + line.amount * VatFactorLow]
        ELSE a1

RECURSIVE VatForEachLine(_, _)
VatForEachLine(lines, acc) ==
    IF lines = <<>> THEN acc ELSE VatForEachLine(Tail(lines), VatAddLine(acc, Head(lines)))

RECURSIVE VatForEachInvoice(_, _)
VatForEachInvoice(invs, acc) ==
    IF invs = <<>> THEN acc
    ELSE VatForEachInvoice(Tail(invs), VatForEachLine(Head(invs).lines, acc))

\* QUARTERS.find(q => q.id === quarter)
FindQuarter(qtr) ==
    LET hits == SelectSeq(QUARTERS, LAMBDA q : q.id = qtr)
    IN  IF hits = <<>> THEN None ELSE Some(Head(hits))

(***************************************************************************)
(* Faulty variants of calculate.                                           *)
(***************************************************************************)
\* totalPayable clamped at zero
calculate_clampsPayable(invs, exps, invests, yr, qtr) ==
    LET qData == Get(FindQuarter(qtr))
        start == NumToStr(yr) \o <<45>> \o qData.range[1] \o <<45, 48, 49>>
        end   == NumToStr(yr) \o <<45>> \o qData.range[2] \o <<45, 51, 49>>
        acc == VatForEachInvoice(
                   SelectSeq(invs, LAMBDA i : i.type = SALES /\ StrGe(i.date, start) /\ StrLe(i.date, end)),
                   [tHigh |-> 0, vHigh |-> 0, tLow |-> 0, vLow |-> 0])
        vDeduct == SumField(SelectSeq(exps, LAMBDA e : StrGe(e.date, start) /\ StrLe(e.date, end)),
                            "vatAmount") * Scale
        yearStart == NumToStr(yr) \o <<45, 48, 49, 45, 48, 49>>
        yearEnd   == NumToStr(yr) \o <<45, 49, 50, 45, 51, 49>>
        yearlyInvestments ==
            SumField(SelectSeq(invests, LAMBDA i : StrGe(i.date, yearStart)
                                                   /\ StrLe(i.date, yearEnd)
                                                   /\ i.purchaseValue >= KIA_MIN_ITEM_VALUE),
                     "purchaseValue")
        payable == (acc.vHigh + acc.vLow) - vDeduct
    IN  Some([report |-> [period |-> <<81>> \o NumToStr(qtr), year |-> yr,
                          turnoverHigh |-> acc.tHigh, vatHigh |-> acc.vHigh,
                          turnoverLow |-> acc.tLow, vatLow |-> acc.vLow,
                          vatDeductible |-> vDeduct,
                          totalPayable |-> IF payable < 0 THEN 0 ELSE payable],
              kiaStats |-> [total |-> yearlyInvestments,
                            deduction |-> calculateKiaDeduction(yearlyInvestments)]])

\* every line that is not at 21% is put in the low bucket
calculate_lowBucketCatchesAll(invs, exps, invests, yr, qtr) ==
    LET qData == Get(FindQuarter(qtr))
        start == NumToStr(yr) \o <<45>> \o qData.range[1] \o <<45, 48, 49>>
        end   == NumToStr(yr) \o <<45>> \o qData.range[2] \o <<45, 51, 49>>
        inWindow == SelectSeq(invs, LAMBDA i : i.type = SALES /\ StrGe(i.date, start)
                                                 /\ StrLe(i.date, end))
        acc == VatForEachInvoice(inWindow, [tHigh |-> 0, vHigh |-> 0, tLow |-> 0, vLow |-> 0])
        rest == SumSeq([k \in DOMAIN inWindow |-> InvoiceAmount(inWindow[k])]) * Scale
                    - acc.tHigh
        vDeduct == SumField(SelectSeq(exps, LAMBDA e : StrGe(e.date, start) /\ StrLe(e.date, end)),
                            "vatAmount") * Scale
        yearStart == NumToStr(yr) \o <<45, 48, 49, 45, 48, 49>>
        yearEnd   == NumToStr(yr) \o <<45, 49, 50, 45, 51, 49>>
        yearlyInvestments ==
            SumField(SelectSeq(invests, LAMBDA i : StrGe(i.date, yearStart)
                                                   /\ StrLe(i.date, yearEnd)
                                                   /\ i.purchaseValue >= KIA_MIN_ITEM_VALUE),
                     "purchaseValue")
    IN  Some([report |-> [period |-> <<81>> \o NumToStr(qtr), year |-> yr,
                          turnoverHigh |-> acc.tHigh, vatHigh |-> acc.vHigh,
                          turnoverLow |-> rest, vatLow |-> (rest \div Scale) * VatFactorLow,
                          vatDeductible |-> vDeduct,
                          totalPayable |-> (acc.vHigh + (rest \div Scale) * VatFactorLow) - vDeduct],
              kiaStats |-> [total |-> yearlyInvestments,
                            deduction |-> calculateKiaDeduction(yearlyInvestments)]])

\* DRAFT invoices filtered out, as loadSummary does
calculate_skipsDrafts(invs, exps, invests, yr, qtr) ==
    LET qData == Get(FindQuarter(qtr))
        start == NumToStr(yr) \o <<45>> \o qData.range[1] \o <<45, 48, 49>>
        end   == NumToStr(yr) \o <<45>> \o qData.range[2] \o <<45, 51, 49>>
        acc == VatForEachInvoice(
                   SelectSeq(invs, LAMBDA i : i.type = SALES /\ i.status # DRAFT /\ StrGe(i.date, start)
                                                /\ StrLe(i.date, end)),
                   [tHigh |-> 0, vHigh |-> 0, tLow |-> 0, vLow |-> 0])
        vDeduct == SumField(SelectSeq(exps, LAMBDA e : StrGe(e.date, start) /\ StrLe(e.date, end)),
                            "vatAmount") * Scale
        yearStart == NumToStr(yr) \o <<45, 48, 49, 45, 48, 49>>
        yearEnd   == NumToStr(yr) \o <<45, 49, 50, 45, 51, 49>>
        yearlyInvestments ==
            SumField(SelectSeq(invests, LAMBDA i : StrGe(i.date, yearStart)
                                                   /\ StrLe(i.date, yearEnd)
                                                   /\ i.purchaseValue >= KIA_MIN_ITEM_VALUE),
                     "purchaseValue")
    IN  Some([report |-> [period |-> <<81>> \o NumToStr(qtr), year |-> yr,
                          turnoverHigh |-> acc.tHigh, vatHigh |-> acc.vHigh,
                          turnoverLow |-> acc.tLow, vatLow |-> acc.vLow,
                          vatDeductible |-> vDeduct,
                          totalPayable |-> (acc.vHigh + acc.vLow) - vDeduct],
              kiaStats |-> [total |-> yearlyInvestments,
                            deduction |-> calculateKiaDeduction(yearlyInvestments)]])

\* the end of the window compared with < instead of <=
calculate_endExclusive(invs, exps, invests, yr, qtr) ==
    LET qData == Get(FindQuarter(qtr))
        start == NumToStr(yr) \o <<45>> \o qData.range[1] \o <<45, 48, 49>>
        end   == NumToStr(yr) \o <<45>> \o qData.range[2] \o <<45, 51, 49>>
        acc == VatForEachInvoice(
                   SelectSeq(invs, LAMBDA i : i.type = SALES /\ StrGe(i.date, start) /\ StrLt(i.date, end)),
                   [tHigh |-> 0, vHigh |-> 0, tLow |-> 0, vLow |-> 0])
        vDeduct == SumField(SelectSeq(exps, LAMBDA e : StrGe(e.date, start) /\ StrLt(e.date, end)),
                            "vatAmount") * Scale
        yearStart == NumToStr(yr) \o <<45, 48, 49, 45, 48, 49>>
        yearEnd   == NumToStr(yr) \o <<45, 49, 50, 45, 51, 49>>
        yearlyInvestments ==
            SumField(SelectSeq(invests, LAMBDA i : StrGe(i.date, yearStart)
                                                   /\ StrLe(i.date, yearEnd)
                                                   /\ i.purchaseValue >= KIA_MIN_ITEM_VALUE),
                     "purchaseValue")
    IN  Some([report |-> [period |-> <<81>> \o NumToStr(qtr), year |-> yr,
                          turnoverHigh |-> acc.tHigh, vatHigh |-> acc.vHigh,
                          turnoverLow |-> acc.tLow, vatLow |-> acc.vLow,
                          vatDeductible |-> vDeduct,
                          totalPayable |-> (acc.vHigh + acc.vLow) - vDeduct],
              kiaStats |-> [total |-> yearlyInvestments,
                            deduction |-> calculateKiaDeduction(yearlyInvestments)]])

\* the KIA total taken over the investments of the quarter, not of the year
calculate_kiaPerQuarter(invs, exps, invests, yr, qtr) ==
    LET qData == Get(FindQuarter(qtr))
        start == NumToStr(yr) \o <<45>> \o qData.range[1] \o <<45, 48, 49>>
        end   == NumToStr(yr) \o <<45>> \o qData.range[2] \o <<45, 51, 49>>
        acc == VatForEachInvoice(
                   SelectSeq(invs, LAMBDA i : i.type = SALES /\ StrGe(i.date, start)
                                                /\ StrLe(i.date, end)),
                   [tHigh |-> 0, vHigh |-> 0, tLow |-> 0, vLow |-> 0])
        vDeduct == SumField(SelectSeq(exps, LAMBDA e : StrGe(e.date, start) /\ StrLe(e.date, end)),
                            "vatAmount") * Scale
        yearlyInvestments ==
            SumField(SelectSeq(invests, LAMBDA i : StrGe(i.date, start)
                                                   /\ StrLe(i.date, end)
                                                   /\ i.purchaseValue >= KIA_MIN_ITEM_VALUE),
                     "purchaseValue")
    IN  Some([report |-> [period |-> <<81>> \o NumToStr(qtr), year |-> yr,
                          turnoverHigh |-> acc.tHigh, vatHigh |-> acc.vHigh,
                          turnoverLow |-> acc.tLow, vatLow |-> acc.vLow,
                          vatDeductible |-> vDeduct,
                          totalPayable |-> (acc.vHigh + acc.vLow) - vDeduct],
              kiaStats |-> [total |-> yearlyInvestments,
                            deduction |-> calculateKiaDeduction(yearlyInvestments)]])

\* Faulty variant of calculate: the window of a quarter ends on the 30th
calculate_endsOn30(invs, exps, invests, yr, qtr) ==
    LET qData == FindQuarter(qtr)
    IN  IF qData = None THEN None
        ELSE
        LET \* `${year}-${qData.range[0]}-01` and `${year}-${qData.range[1]}-30`
            start == NumToStr(yr) \o <<45>> \o Get(qData).range[1] \o <<45, 48, 49>>
            end   == NumToStr(yr) \o <<45>> \o Get(qData).range[2] \o <<45, 51, 48>>
            acc == VatForEachInvoice(
                       SelectSeq(invs, LAMBDA i : i.type = SALES /\ StrGe(i.date, start)
                                                    /\ StrLe(i.date, end)),
                       [tHigh |-> 0, vHigh |-> 0, tLow |-> 0, vLow |-> 0])
            vDeduct == SumField(SelectSeq(exps, LAMBDA e : StrGe(e.date, start)
                                                          /\ StrLe(e.date, end)),
                                "vatAmount") * Scale
            \* `${year}-01-01` and `${year}-12-31`
            yearStart == NumToStr(yr) \o <<45, 48, 49, 45, 48, 49>>
            yearEnd   == NumToStr(yr) \o <<45, 49, 50, 45, 51, 49>>
            yearlyInvestments ==
                SumField(SelectSeq(invests, LAMBDA i : StrGe(i.date, yearStart)
                                                       /\ StrLe(i.date, yearEnd)
                                                       /\ i.purchaseValue >= KIA_MIN_ITEM_VALUE),
                         "purchaseValue")
        IN  Some([report |-> [period |-> <<81>> \o NumToStr(qtr), year |-> yr,
                              turnoverHigh |-> acc.tHigh, vatHigh |-> acc.vHigh,
                              turnoverLow |-> acc.tLow, vatLow |-> acc.vLow,
                              vatDeductible |-> vDeduct,
                              totalPayable |-> (acc.vHigh + acc.vLow) - vDeduct],
                  kiaStats |-> [total |-> yearlyInvestments,
                                deduction |-> calculateKiaDeduction(yearlyInvestments)]])

(***************************************************************************)
(* VatReturnView's calculate, on the arrays the three fetches yield and    *)
(* the year and quarter of the render that started it.  The result is      *)
(* None when it returns before setReport, and otherwise the values handed  *)
(* to setReport and setKiaStats.                                           *)
(***************************************************************************)
calculate(invs, exps, invests, yr, qtr) ==
    LET qData == FindQuarter(qtr)
    IN  IF qData = None THEN None
        ELSE
        LET \* `${year}-${qData.range[0]}-01` and `${year}-${qData.range[1]}-31`
            start == NumToStr(yr) \o <<45>> \o Get(qData).range[1] \o <<45, 48, 49>>
            end   == NumToStr(yr) \o <<45>> \o Get(qData).range[2] \o <<45, 51, 49>>
            acc == VatForEachInvoice(
                       SelectSeq(invs, LAMBDA i : i.type = SALES /\ StrGe(i.date, start)
                                                    /\ StrLe(i.date, end)),
                       [tHigh |-> 0, vHigh |-> 0, tLow |-> 0, vLow |-> 0])
            vDeduct == SumField(SelectSeq(exps, LAMBDA e : StrGe(e.date, start)
                                                          /\ StrLe(e.date, end)),
                                "vatAmount") * Scale
            \* `${year}-01-01` and `${year}-12-31`
            yearStart == NumToStr(yr) \o <<45, 48, 49, 45, 48, 49>>
            yearEnd   == NumToStr(yr) \o <<45, 49, 50, 45, 51, 49>>
            yearlyInvestments ==
                SumField(SelectSeq(invests, LAMBDA i : StrGe(i.date, yearStart)
                                                       /\ StrLe(i.date, yearEnd)
                                                       /\ i.purchaseValue >= KIA_MIN_ITEM_VALUE),
                         "purchaseValue")
        IN  Some([report |-> [period |-> <<81>> \o NumToStr(qtr), year |-> yr,
                              turnoverHigh |-> acc.tHigh, vatHigh |-> acc.vHigh,
                              turnoverLow |-> acc.tLow, vatLow |-> acc.vLow,
                              vatDeductible |-> vDeduct,
                              totalPayable |-> (acc.vHigh + acc.vLow) - vDeduct],
                  kiaStats |-> [total |-> yearlyInvestments,
                                deduction |-> calculateKiaDeduction(yearlyInvestments)]])

(***************************************************************************)
(* Faulty variant of loadSummary: the DRAFT test is missing.               *)
(***************************************************************************)
loadSummary_countsDrafts(inv, exp, invest, correctionVal) ==
    LET sales == SelectSeq(inv, LAMBDA i : i.type = SALES)
        revenue == SumSeq([k \in DOMAIN sales |-> InvoiceAmount(sales[k])]) * Scale
        expensesTotal == SumField(exp, "amountExcl") * Scale
        investmentTotal == SumField(invest, "purchaseValue") * Scale
        \* correctionVal ? parseFloat(correctionVal) : 0
        correction == IF correctionVal # None /\ Get(correctionVal) # 0
                      THEN Get(correctionVal) * Scale ELSE 0
        kia == calculateKiaDeduction(
                   SumField(SelectSeq(invest, LAMBDA i : i.purchaseValue >= KIA_MIN_ITEM_VALUE),
                            "purchaseValue"))
        vatOut == SumSeq([k \in DOMAIN sales |-> InvoiceVat(sales[k])])
        vatIn == SumField(exp, "vatAmount") * Scale
    IN  [revenue |-> revenue, expenses |-> expensesTotal, investments |-> investmentTotal,
         profit |-> revenue - expensesTotal, vatPayable |-> vatOut, vatDeductible |-> vatIn,
         vatTotal |-> vatOut - vatIn, kiaDeduction |-> kia, manualCorrection |-> correction]

\* Faulty variant of loadSummary: an item of exactly KIA_MIN_ITEM_VALUE does not qualify
loadSummary_minItemExclusive(inv, exp, invest, correctionVal) ==
    LET sales == SelectSeq(inv, LAMBDA i : i.type = SALES /\ i.status # DRAFT)
        revenue == SumSeq([k \in DOMAIN sales |-> InvoiceAmount(sales[k])]) * Scale
        expensesTotal == SumField(exp, "amountExcl") * Scale
        investmentTotal == SumField(invest, "purchaseValue") * Scale
        \* correctionVal ? parseFloat(correctionVal) : 0
        correction == IF correctionVal # None /\ Get(correctionVal) # 0
                      THEN Get(correctionVal) * Scale ELSE 0
        kia == calculateKiaDeduction(
                   SumField(SelectSeq(invest, LAMBDA i : i.purchaseValue > KIA_MIN_ITEM_VALUE),
                            "purchaseValue"))
        vatOut == SumSeq([k \in DOMAIN sales |-> InvoiceVat(sales[k])])
        vatIn == SumField(exp, "vatAmount") * Scale
    IN  [revenue |-> revenue, expenses |-> expensesTotal, investments |-> investmentTotal,
         profit |-> revenue - expensesTotal, vatPayable |-> vatOut, vatDeductible |-> vatIn,
         vatTotal |-> vatOut - vatIn, kiaDeduction |-> kia, manualCorrection |-> correction]

(***************************************************************************)
(* App.loadSummary after the session test, on what the four fetches        *)
(* yield: the record handed to setSummary.                                 *)
(***************************************************************************)
loadSummary(inv, exp, invest, correctionVal) ==
    LET sales == SelectSeq(inv, LAMBDA i : i.type = SALES /\ i.status # DRAFT)
        revenue == SumSeq([k \in DOMAIN sales |-> InvoiceAmount(sales[k])]) * Scale
        expensesTotal == SumField(exp, "amountExcl") * Scale
        investmentTotal == SumField(invest, "purchaseValue") * Scale
        \* correctionVal ? parseFloat(correctionVal) : 0
        correction == IF correctionVal # None /\ Get(correctionVal) # 0
                      THEN Get(correctionVal) * Scale ELSE 0
        kia == calculateKiaDeduction(
                   SumField(SelectSeq(invest, LAMBDA i : i.purchaseValue >= KIA_MIN_ITEM_VALUE),
                            "purchaseValue"))
        vatOut == SumSeq([k \in DOMAIN sales |-> InvoiceVat(sales[k])])
        vatIn == SumField(exp, "vatAmount") * Scale
    IN  [revenue |-> revenue, expenses |-> expensesTotal, investments |-> investmentTotal,
         profit |-> revenue - expensesTotal, vatPayable |-> vatOut, vatDeductible |-> vatIn,
         vatTotal |-> vatOut - vatIn, kiaDeduction |-> kia, manualCorrection |-> correction]

\* useState<FinancialSummary>({ revenue: 0, ... })
InitialSummary ==
    [revenue |-> 0, expenses |-> 0, investments |-> 0, profit |-> 0, vatPayable |-> 0,
     vatDeductible |-> 0, vatTotal |-> 0, kiaDeduction |-> 0, manualCorrection |-> 0]

(***************************************************************************)
(* DataService: the fetches.  A database row of invoices carries its lines *)
(* column as Some(lines), or None when the column is null.                 *)
(***************************************************************************)
\* Faulty variant of fromDbInvoice: a row without lines is given one line of 100 at 21%
fromDbInvoice_placeholderLine(row) ==
    [type |-> row.type, status |-> row.status, date |-> row.date,
     lines |-> IF row.lines = None THEN <<[amount |-> 100, vatRate |-> 21]>>
               ELSE Get(row.lines)]

\* lines: row.lines || []
fromDbInvoice(row) ==
    [type |-> row.type, status |-> row.status, date |-> row.date,
     lines |-> IF row.lines = None THEN <<>> ELSE Get(row.lines)]

\* lines: i.lines
toDbInvoice(i) == [i EXCEPT !.lines = Some(@)]

\* data || []
OrEmpty(data) == IF data = None THEN <<>> ELSE Get(data)

\* if (!supabase) return []; ... return (data || []).map(fromDbInvoice)
getInvoices(configured, data) ==
    IF ~configured THEN <<>>
    ELSE [i \in DOMAIN OrEmpty(data) |-> fromDbInvoice(OrEmpty(data)[i])]

\* if (!supabase) return []; ... return (data || []).map(fromDbExpense)
getExpenses(configured, data) == IF ~configured THEN <<>> ELSE OrEmpty(data)

\* if (!supabase) return []; ... return (data || []).map(fromDbInvestment)
getInvestments(configured, data) == IF ~configured THEN <<>> ELSE OrEmpty(data)

\* the client is configured and the database holds the rows of the store
DbHolds ==
    /\ client = TRUE
    /\ dbInvoices = Some([i \in DOMAIN invoices |-> toDbInvoice(invoices[i])])
    /\ dbExpenses = Some(expenses)
    /\ dbInvestments = Some(investments)

(***************************************************************************)
(* JavaScript numbers that may fail to be finite: a finite value v, NaN,   *)
(* or an infinity of sign v.  A sum of amounts that exceeds the largest    *)
(* double is an infinity, and the difference of two infinities is NaN.     *)
(***************************************************************************)
Fin(n) == [kind |-> "fin", v |-> n]
NaN == [kind |-> "nan", v |-> 0]
Infinity(sign) == [kind |-> "inf", v |-> sign]

\* a + b
NumAdd(a, b) ==
    IF a.kind = "nan" \/ b.kind = "nan" THEN NaN
    ELSE IF a.kind = "inf" THEN (IF b.kind = "inf" /\ b.v # a.v THEN NaN ELSE a)
    ELSE IF b.kind = "inf" THEN b
    ELSE Fin(a.v + b.v)

\* -a
NumNeg(a) == IF a.kind = "nan" THEN NaN ELSE [a EXCEPT !.v = -a.v]

\* a - b
NumSub(a, b) == NumAdd(a, NumNeg(b))

\* a * (p / 100) for a finite percentage p, in hundredths of the unit of a
NumTimesPct(a, p) ==
    IF a.kind = "nan" THEN NaN
    ELSE IF a.kind = "inf"
         THEN (IF p = 0 THEN NaN ELSE Infinity(IF p > 0 THEN a.v ELSE -a.v))
    ELSE Fin(a.v * p)

\* isNaN(a)
isNaN(a) == a.kind = "nan"

(***************************************************************************)
(* Faulty variants of the computations of CompanyInfoView.                 *)
(***************************************************************************)
\* vatTotal added instead of subtracted
companyValue_addsVat(summ, corr) ==
    NumAdd(NumAdd(NumAdd(summ.profit, summ.investments), summ.vatTotal), corr)

\* every shareholder given the share of a holder of 100%
shareValues_ignoresPercentage(safe, shs) ==
    [i \in DOMAIN shs |-> NumTimesPct(safe, 100)]

(***************************************************************************)
(* CompanyInfoView: what a render computes from its summary prop, the      *)
(* correction it holds and the shareholders it has loaded.  Money is in    *)
(* ticks, a share in hundredths of a tick.                                 *)
(***************************************************************************)
\* summary.profit + summary.investments - summary.vatTotal + correction
companyValue(summ, corr) ==
    NumAdd(NumSub(NumAdd(summ.profit, summ.investments), summ.vatTotal), corr)

\* isNaN(companyValue) ? 0 : companyValue
safeCompanyValue(summ, corr) ==
    IF isNaN(companyValue(summ, corr)) THEN Fin(0) ELSE companyValue(summ, corr)

\* shareholders.map(sh => safeCompanyValue * (sh.defaultPercentage / 100))
shareValues(safe, shs) ==
    [i \in DOMAIN shs |-> NumTimesPct(safe, shs[i])]

(***************************************************************************)
(* Faulty variants of the two calculated blocks.                           *)
(***************************************************************************)
\* VAT included: the VAT taken as rate times the gross amount
ExpenseCalculated_vatOnGross(amt, vatRate, vatIncluded) ==
    LET rate == Frac(vatRate, 100)
    IN  IF vatIncluded
        THEN [excl |-> FracSub(amt, FracMul(amt, rate)), vat |-> FracMul(amt, rate),
              total |-> amt]
        ELSE [excl |-> amt, vat |-> FracMul(amt, rate),
              total |-> FracMul(amt, FracAdd(Frac(1, 1), rate))]

\* VAT included: the net amount taken as the gross times (1 - rate)
InvoiceCalculated_discounts(amt, vatRate, vatIncluded) ==
    LET rate == Frac(vatRate, 100)
        excl == IF vatIncluded THEN FracMul(amt, FracSub(Frac(1, 1), rate)) ELSE amt
        vat  == IF vatIncluded THEN FracSub(amt, excl) ELSE FracMul(amt, rate)
    IN  [excl |-> excl, vat |-> vat, total |-> IF vatIncluded THEN amt ELSE FracAdd(amt, vat)]

(***************************************************************************)
(* The calculated block of ExpensesView and that of InvoicesView, on the   *)
(* amount, the rate and the vatIncluded flag of the form.  Amounts are     *)
(* fractions of euros.                                                     *)
(***************************************************************************)
ExpenseCalculated(amt, vatRate, vatIncluded) ==
    LET rate == Frac(vatRate, 100)
    IN  IF vatIncluded
        THEN LET excl == FracDiv(amt, FracAdd(Frac(1, 1), rate))
             IN  [excl |-> excl, vat |-> FracSub(amt, excl), total |-> amt]
        ELSE [excl |-> amt, vat |-> FracMul(amt, rate),
              total |-> FracMul(amt, FracAdd(Frac(1, 1), rate))]

InvoiceCalculated(amt, vatRate, vatIncluded) ==
    LET rate == Frac(vatRate, 100)
        excl == IF vatIncluded THEN FracDiv(amt, FracAdd(Frac(1, 1), rate)) ELSE amt
        vat  == IF vatIncluded THEN FracSub(amt, excl) ELSE FracMul(amt, rate)
    IN  [excl |-> excl, vat |-> vat, total |-> IF vatIncluded THEN amt ELSE FracAdd(amt, vat)]

(***************************************************************************)
(* SpecKia: calculateKiaDeduction applied to every whole-euro total up to  *)
(* KiaMaxTotal, and to the next euro after it.                             *)
(***************************************************************************)
KiaMaxTotal == 387600

KiaIdle ==
    /\ total = 0
    /\ kiaPrev = None
    /\ kiaOut = None

BookIdle ==
    /\ bookInv = None
    /\ bookNow = 0
    /\ bookOut = None

\* the application before anyone has logged in, on an empty data store
AppIdle ==
    /\ invoices = <<>>
    /\ expenses = <<>>
    /\ investments = <<>>
    /\ correctionSetting = None
    /\ DbHolds
    /\ session = FALSE
    /\ activeTab = "DASHBOARD"
    /\ summary = InitialSummary
    /\ year = 0
    /\ quarter = 0
    /\ report = None
    /\ kiaStats = None

\* CompanyInfoView is not rendered
CompanyIdle ==
    /\ coSummary = None
    /\ coCorrection = None
    /\ shareholders = <<>>
    /\ companyOut = None

\* no upload form is open
FormIdle ==
    /\ formAmount = Frac(0, 1)
    /\ formIncluded = TRUE
    /\ formRate = 21
    /\ formNet = None
    /\ expenseCalculated = None
    /\ invoiceCalculated = None

\* no loadSummary run is in flight
RunIdle ==
    /\ pending = <<>>
    /\ event = "none"

\* no calculate run is in flight
CalcIdle ==
    /\ calcs = <<>>

\* no upload view is mounted
SaveIdle ==
    /\ view = "LIST"
    /\ formText = ""
    /\ invType = SALES
    /\ listInvoices = <<>>
    /\ saveOutcome = "none"

QuarterIdle ==
    /\ qDate = <<>>
    /\ qYear = 0
    /\ qReports = None

\* geminiService is loaded without an API key and getFinancialAdvice was never called
AdviceIdle ==
    /\ ai = None
    /\ adviceCalls = <<>>
    /\ adviceSettled = None

UiIdle ==
    /\ RunIdle
    /\ CalcIdle
    /\ SaveIdle
    /\ QuarterIdle
    /\ AdviceIdle

KiaInit ==
    /\ total \in 0..KiaMaxTotal
    /\ kiaPrev = None
    /\ kiaOut = None
    /\ BookIdle
    /\ AppIdle
    /\ CompanyIdle
    /\ FormIdle
    /\ UiIdle

\* the deduction is computed for the current total
KiaCalculate ==
    /\ kiaOut = None
    /\ kiaOut' = Some(calculateKiaDeduction(total))
    /\ UNCHANGED <<total, kiaPrev>>
    /\ UNCHANGED <<bookVars, appVars, companyVars, formVars, uiVars>>

\* one more euro is invested and the deduction is computed again
KiaNextEuro ==
    /\ kiaOut # None
    /\ kiaPrev = None
    /\ total' = total + 1
    /\ kiaPrev' = kiaOut
    /\ kiaOut' = Some(calculateKiaDeduction(total + 1))
    /\ UNCHANGED <<bookVars, appVars, companyVars, formVars, uiVars>>

KiaNext == KiaCalculate \/ KiaNextEuro

SpecKia == KiaInit /\ [][KiaNext]_vars

(***************************************************************************)
(* SpecBook: calculateBookValue applied to investments of the form's       *)
(* fields, at every instant from BookSkew units before 2020-01-01 to       *)
(* BookSpan units after it.                                                *)
(***************************************************************************)
BookSkew == 100
BookSpan == 29300

BookDates == {IsoDate(2020, 1, 1), IsoDate(2024, 2, 29)}

BookInvestments ==
    [date : BookDates, purchaseValue : {100, 1000}, residualValue : {100, 1000},
     lifespanYears : {1, 5}]

BookInit ==
    /\ bookInv \in {Some(i) : i \in BookInvestments}
    /\ bookNow \in (DateGetTime(IsoDate(2020, 1, 1)) - BookSkew)
                    ..(DateGetTime(IsoDate(2020, 1, 1)) + BookSpan)
    /\ bookOut = None
    /\ KiaIdle
    /\ AppIdle
    /\ CompanyIdle
    /\ FormIdle
    /\ UiIdle

\* InvestmentsView renders a card: currentVal = calculateBookValue(inv)
BookCalculate ==
    /\ bookOut = None
    /\ bookOut' = Some(calculateBookValue(Get(bookInv), bookNow))
    /\ UNCHANGED <<bookInv, bookNow>>
    /\ UNCHANGED <<kiaVars, appVars, companyVars, formVars, uiVars>>

BookNext == BookCalculate

SpecBook == BookInit /\ [][BookNext]_vars

(***************************************************************************)
(* Spec: the application over a data store that already holds rows.  The   *)
(* store holds up to MaxInvoices invoices and MaxExpenses expenses; the    *)
(* user logs in, changes tab, and in the VAT return view selects a year    *)
(* and a quarter.  Every handler is taken with the fetches it awaits and   *)
(* the state it sets, as one step.                                         *)
(***************************************************************************)
MaxInvoices == 2
MaxExpenses == 1

Line(amount, vatRate) == [amount |-> amount, vatRate |-> vatRate]

\* the last day of the first quarter and the first day of the second
StoreDates == {IsoDate(2024, 3, 31), IsoDate(2024, 4, 1)}

\* lines at all three rates on one invoice
MixedLines == <<Line(100, 21), Line(50, 0), Line(200, 9)>>

StoreLineLists == { <<Line(100, 21)>>, <<Line(200, 9)>>, <<Line(50, 0)>>, MixedLines }

\* the rows an invoices table may hold: paid sales invoices of every line list, and
\* draft sales invoices and paid purchase invoices with lines at all three rates
InvoiceRows ==
    [type : {SALES}, status : {PAID}, date : StoreDates, lines : StoreLineLists]
    \cup [type : {SALES}, status : {DRAFT}, date : StoreDates, lines : {MixedLines}]
    \cup [type : {PURCHASE}, status : {PAID}, date : StoreDates, lines : {MixedLines}]

ExpenseRows == [date : StoreDates, amountExcl : {50}, vatAmount : {10}]

\* some enumeration of a finite set, as a sequence without repetition
RECURSIVE SetToSeq(_)
SetToSeq(S) == IF S = {} THEN <<>> ELSE LET x == CHOOSE x \in S : TRUE
                                        IN  <<x>> \o SetToSeq(S \ {x})

\* The tables of up to n rows drawn from the rows of `rows`.  select('*') states no
\* order and the aggregators only filter and sum the rows they are given, so of the
\* tables that hold the same rows one order is kept: that of `rows`.
Tables(rows, n) ==
    { [i \in DOMAIN ix |-> rows[ix[i]]] :
        ix \in UNION { {f \in [1..k -> 1..Len(rows)] : \A i \in 1..(k - 1) : f[i] <= f[i + 1]}
                       : k \in 0..n } }

\* one investment that counts for the KIA and one below KIA_MIN_ITEM_VALUE
StoreInvestments ==
    << [date |-> IsoDate(2024, 4, 1), purchaseValue |-> 3000, residualValue |-> 0,
        lifespanYears |-> 5],
       [date |-> IsoDate(2024, 3, 31), purchaseValue |-> 400, residualValue |-> 100,
        lifespanYears |-> 5] >>

\* the settings row 'company_value_correction': absent, or holding 250
StoreCorrections == {None, Some(250)}

\* three of the eight tabs: the dashboard, the VAT return and the company view
Tabs == {"DASHBOARD", "VAT", "COMPANY"}

\* the year new Date().getFullYear() returns, and the options of the year select
ClockYears == {2024}
SelectYears == {2024, 2025}

Init ==
    /\ invoices \in Tables(SetToSeq(InvoiceRows), MaxInvoices)
    /\ expenses \in Tables(SetToSeq(ExpenseRows), MaxExpenses)
    /\ investments = StoreInvestments
    /\ correctionSetting \in StoreCorrections
    /\ DbHolds
    /\ session = FALSE
    /\ activeTab = "DASHBOARD"
    /\ summary = InitialSummary
    /\ year = 0
    /\ quarter = 0
    /\ report = None
    /\ kiaStats = None
    /\ KiaIdle
    /\ BookIdle
    /\ CompanyIdle
    /\ FormIdle
    /\ UiIdle

\* VatReturnView is not rendered: its state does not exist
VatViewUnmounted ==
    /\ year' = 0
    /\ quarter' = 0
    /\ report' = None
    /\ kiaStats' = None

\* Faulty variant of the effect: the four accumulators are not reset between runs, so
\* a run adds its figures to the report on display
VatViewEffect_accumulates(y, q, prevReport, prevKia) ==
    LET r == calculate(invoices, expenses, investments, y, q)
        add(f) == IF prevReport = None THEN 0 ELSE Get(prevReport)[f]
    IN  /\ year' = y
        /\ quarter' = q
        /\ report' = Some([Get(r).report EXCEPT
                              !.turnoverHigh = @ + add("turnoverHigh"),
                              !.vatHigh = @ + add("vatHigh"),
                              !.turnoverLow = @ + add("turnoverLow"),
                              !.vatLow = @ + add("vatLow")])
        /\ kiaStats' = Some(Get(r).kiaStats)

\* the effect on [year, quarter] of VatReturnView: calculate() run to its end, in a view
\* that holds prevReport and prevKia
VatViewEffect(y, q, prevReport, prevKia) ==
    LET r == calculate(invoices, expenses, investments, y, q)
    IN  /\ year' = y
        /\ quarter' = q
        /\ report' = IF r = None THEN prevReport ELSE Some(Get(r).report)
        /\ kiaStats' = IF r = None THEN prevKia ELSE Some(Get(r).kiaStats)

\* VatReturnView mounts: year and quarter from the clock, report and kiaStats null
VatViewMount ==
    \E y \in ClockYears, q \in 1..4 : VatViewEffect(y, q, None, None)

\* onAuthStateChange, subscribed to when the client is configured, with a session: setSession, then the effect on [session, activeTab]
\* runs loadSummary and the active view is rendered
AuthStateChange ==
    /\ client
    /\ ~session
    /\ session' = TRUE
    /\ summary' = loadSummary(invoices, expenses, investments, correctionSetting)
    /\ IF activeTab = "VAT" THEN VatViewMount ELSE VatViewUnmounted
    /\ UNCHANGED <<storeVars, activeTab>>
    /\ UNCHANGED <<kiaVars, bookVars, companyVars, formVars, uiVars>>

\* NavItem onClick: setActiveTab(id), then the effect on [session, activeTab] runs
\* loadSummary and the view of the tab is mounted
SetActiveTab(id) ==
    /\ session
    /\ id # activeTab
    /\ activeTab' = id
    /\ summary' = loadSummary(invoices, expenses, investments, correctionSetting)
    /\ IF id = "VAT" THEN VatViewMount ELSE VatViewUnmounted
    /\ UNCHANGED <<storeVars, session>>
    /\ UNCHANGED <<kiaVars, bookVars, companyVars, formVars, uiVars>>

\* the year select of VatReturnView: setYear(parseInt(e.target.value))
SetYear(y) ==
    /\ session
    /\ activeTab = "VAT"
    /\ y # year
    /\ VatViewEffect(y, quarter, report, kiaStats)
    /\ UNCHANGED <<storeVars, session, activeTab, summary>>
    /\ UNCHANGED <<kiaVars, bookVars, companyVars, formVars, uiVars>>

\* the quarter select of VatReturnView: setQuarter(parseInt(e.target.value))
SetQuarter(q) ==
    /\ session
    /\ activeTab = "VAT"
    /\ q # quarter
    /\ VatViewEffect(year, q, report, kiaStats)
    /\ UNCHANGED <<storeVars, session, activeTab, summary>>
    /\ UNCHANGED <<kiaVars, bookVars, companyVars, formVars, uiVars>>

Next ==
    \/ AuthStateChange
    \/ \E id \in Tabs : SetActiveTab(id)
    \/ \E y \in SelectYears : SetYear(y)
    \/ \E q \in 1..4 : SetQuarter(q)

Spec == Init /\ [][Next]_vars

(***************************************************************************)
(* SpecLedger: the same application over stores that differ in their       *)
(* investments: up to MaxInvestments investments, of 449, 450 or 3000      *)
(* euro, dated on the last day of 2023, the first or the last day of 2024, *)
(* or the first day of 2025.                                               *)
(***************************************************************************)
MaxInvestments == 2

InvestmentRows ==
    [date : {IsoDate(2023, 12, 31), IsoDate(2024, 1, 1), IsoDate(2024, 12, 31),
             IsoDate(2025, 1, 1)},
     purchaseValue : {KIA_MIN_ITEM_VALUE - 1, KIA_MIN_ITEM_VALUE, 3000},
     residualValue : {0}, lifespanYears : {5}]

\* one paid and one draft sales invoice and one purchase invoice
LedgerInvoices ==
    << [type |-> SALES, status |-> PAID, date |-> IsoDate(2024, 3, 31), lines |-> MixedLines],
       [type |-> SALES, status |-> DRAFT, date |-> IsoDate(2024, 4, 1), lines |-> MixedLines],
       [type |-> PURCHASE, status |-> PAID, date |-> IsoDate(2024, 4, 1),
        lines |-> MixedLines] >>

LedgerExpenses ==
    << [date |-> IsoDate(2024, 3, 31), amountExcl |-> 50, vatAmount |-> 10] >>

InitLedger ==
    /\ invoices = LedgerInvoices
    /\ expenses = LedgerExpenses
    /\ investments \in Tables(SetToSeq(InvestmentRows), MaxInvestments)
    /\ correctionSetting \in StoreCorrections
    /\ DbHolds
    /\ session = FALSE
    /\ activeTab = "DASHBOARD"
    /\ summary = InitialSummary
    /\ year = 0
    /\ quarter = 0
    /\ report = None
    /\ kiaStats = None
    /\ KiaIdle
    /\ BookIdle
    /\ CompanyIdle
    /\ FormIdle
    /\ UiIdle

SpecLedger == InitLedger /\ [][Next]_vars

(***************************************************************************)
(* SpecMissing: the same application over databases that yield no data:    *)
(* the client may be unconfigured, each query may return null data, and an *)
(* invoice row may have a null lines column.  The store is what the        *)
(* fetches yield.                                                          *)
(***************************************************************************)
MaxDbRows == 2

DbInvoiceRows ==
    [type : {SALES}, status : {PAID}, date : StoreDates, lines : {None, Some(MixedLines)}]

InitMissing ==
    /\ client \in BOOLEAN
    /\ dbInvoices \in {None} \cup {Some(t) : t \in Tables(SetToSeq(DbInvoiceRows), MaxDbRows)}
    /\ dbExpenses \in {None, Some(<<>>), Some(LedgerExpenses)}
    /\ dbInvestments \in {None, Some(StoreInvestments)}
    /\ invoices = getInvoices(client, dbInvoices)
    /\ expenses = getExpenses(client, dbExpenses)
    /\ investments = getInvestments(client, dbInvestments)
    /\ correctionSetting \in StoreCorrections
    /\ session = FALSE
    /\ activeTab = "DASHBOARD"
    /\ summary = InitialSummary
    /\ year = 0
    /\ quarter = 0
    /\ report = None
    /\ kiaStats = None
    /\ KiaIdle
    /\ BookIdle
    /\ CompanyIdle
    /\ FormIdle
    /\ UiIdle

SpecMissing == InitMissing /\ [][Next]_vars

(***************************************************************************)
(* SpecCompany: CompanyInfoView rendered on every summary and correction   *)
(* taken from CompanyNumbers and every list of up to MaxShareholders       *)
(* shareholders with a percentage from CompanyPercentages.                 *)
(***************************************************************************)
MaxShareholders == 2

\* 0, 100 and -30 euro, NaN and the two infinities
CompanyNumbers ==
    {Fin(0), Fin(100 * Scale), Fin(-30 * Scale), NaN, Infinity(1), Infinity(-1)}

CompanyPercentages == {0, 40, 60}

CompanyInit ==
    /\ coSummary \in {Some(x) : x \in [profit : CompanyNumbers, investments : CompanyNumbers,
                                       vatTotal : CompanyNumbers]}
    /\ coCorrection \in {Some(x) : x \in CompanyNumbers}
    /\ shareholders \in UNION {[1..n -> CompanyPercentages] : n \in 0..MaxShareholders}
    /\ companyOut = None
    /\ KiaIdle
    /\ BookIdle
    /\ AppIdle
    /\ FormIdle
    /\ UiIdle

\* CompanyInfoView renders
CompanyRender ==
    /\ companyOut = None
    /\ companyOut' =
           Some([companyValue |-> companyValue(Get(coSummary), Get(coCorrection)),
                 safeCompanyValue |-> safeCompanyValue(Get(coSummary), Get(coCorrection)),
                 shareValue |-> shareValues(safeCompanyValue(Get(coSummary), Get(coCorrection)),
                                            shareholders)])
    /\ UNCHANGED <<coSummary, coCorrection, shareholders>>
    /\ UNCHANGED <<kiaVars, bookVars, appVars, formVars, uiVars>>

CompanyNext == CompanyRender

SpecCompany == CompanyInit /\ [][CompanyNext]_vars

(***************************************************************************)
(* SpecForm: the expense form and the invoice form, given the same input.  *)
(* The amount typed is a number of cents from -FormMaxCents to             *)
(* FormMaxCents, or the total that one of the forms shows; formNet         *)
(* remembers what the form showed when its total was typed back in.        *)
(***************************************************************************)
FormMaxCents == 100

FormAmounts == {Frac(c, 100) : c \in (0 - FormMaxCents)..FormMaxCents}

\* the options of the rate select
FormRates == {0, 9, 21}

\* both forms render on the input amt, r, incl
FormRender(amt, r, incl) ==
    /\ formAmount' = amt
    /\ formRate' = r
    /\ formIncluded' = incl
    /\ expenseCalculated' = Some(ExpenseCalculated(amt, r, incl))
    /\ invoiceCalculated' = Some(InvoiceCalculated(amt, r, incl))

\* the forms as opened: amount 0, VAT included, 21%
FormInit ==
    /\ formAmount = Frac(0, 1)
    /\ formIncluded = TRUE
    /\ formRate = 21
    /\ formNet = None
    /\ expenseCalculated = Some(ExpenseCalculated(Frac(0, 1), 21, TRUE))
    /\ invoiceCalculated = Some(InvoiceCalculated(Frac(0, 1), 21, TRUE))
    /\ KiaIdle
    /\ BookIdle
    /\ AppIdle
    /\ CompanyIdle
    /\ UiIdle

\* onChange of the amount input: setForm({...form, amountInput: parseFloat(value)})
FormSetAmount(amt) ==
    /\ FormRender(amt, formRate, formIncluded)
    /\ formNet' = None
    /\ UNCHANGED <<kiaVars, bookVars, appVars, companyVars, uiVars>>

\* onChange of the amount input, the value typed being the total that the expense form
\* (which = 1) or the invoice form (which = 2) shows for an amount excluding VAT
FormTypeTotal(which) ==
    /\ ~formIncluded
    /\ formNet = None
    /\ formAmount \in FormAmounts
    /\ LET shown == IF which = 1 THEN Get(expenseCalculated) ELSE Get(invoiceCalculated)
       IN  /\ FormRender(shown.total, formRate, formIncluded)
           /\ formNet' = Some(shown)
    /\ UNCHANGED <<kiaVars, bookVars, appVars, companyVars, uiVars>>

\* onChange of the 'Bedrag is' select: setForm({...form, vatIncluded: value === 'INCL'})
FormSetIncluded(incl) ==
    /\ incl # formIncluded
    /\ FormRender(formAmount, formRate, incl)
    /\ UNCHANGED formNet
    /\ UNCHANGED <<kiaVars, bookVars, appVars, companyVars, uiVars>>

\* onChange of the rate select: setForm({...form, vatRate: parseInt(value)})
FormSetRate(r) ==
    /\ r # formRate
    /\ FormRender(formAmount, r, formIncluded)
    /\ formNet' = None
    /\ UNCHANGED <<kiaVars, bookVars, appVars, companyVars, uiVars>>

FormNext ==
    \/ \E amt \in FormAmounts : FormSetAmount(amt)
    \/ \E which \in 1..2 : FormTypeTotal(which)
    \/ \E incl \in BOOLEAN : FormSetIncluded(incl)
    \/ \E r \in FormRates : FormSetRate(r)

SpecForm == FormInit /\ [][FormNext]_vars

(***************************************************************************)
(* Properties of calculateKiaDeduction (SpecKia).  Amounts in the          *)
(* formulas are written out in ticks: 0.28 euro = 2800, 0.0756 euro = 756, *)
(* 19535 euro = 195350000.                                                 *)
(***************************************************************************)

\* C1: for every total t the deduction is 0 below 2801, t x 0.28 up to 69765 inclusive,
\* 19535 up to 129194 inclusive, 19535 - (t - 129194) x 0.0756 up to 387580 inclusive,
\* and 0 above.
KiaBrackets ==
    kiaOut # None =>
        LET t == total
            d == Get(kiaOut)
        IN  /\ (t < 2801 => d = 0)
            /\ (2801 <= t /\ t <= 69765 => d = t * 2800)
            /\ (69765 < t /\ t <= 129194 => d = 195350000)
            /\ (129194 < t /\ t <= 387580 => d = 195350000 - (t - 129194) * 756)
            /\ (t > 387580 => d = 0)

\* a total inside the reducing bracket has been computed
KiaBracketsWitness ==
    /\ kiaOut = Some(195350000 - 70806 * 756)
    /\ total = 200000

\* C2: the documented boundary values: kia(2800) = 0, kia(2801) = 784.28,
\* kia(69765) = 19534.20, kia(69766) = 19535, kia(129194) = 19535,
\* kia(129195) = 19535 - 0.0756, kia(387581) = 0.
KiaBoundaryValues ==
    kiaOut # None =>
        LET d == Get(kiaOut)
        IN  /\ (total = 2800 => d = 0)
            /\ (total = 2801 => d = 7842800)
            /\ (total = 69765 => d = 195342000)
            /\ (total = 69766 => d = 195350000)
            /\ (total = 129194 => d = 195350000)
            /\ (total = 129195 => d = 195350000 - 756)
            /\ (total = 387581 => d = 0)

\* the jump at the bracket-1 boundary: 19534.20 for 69765, then 19535 for 69766
KiaBoundaryValuesWitness ==
    /\ total = 69766
    /\ kiaPrev = Some(195342000)
    /\ kiaOut = Some(195350000)

\* C3 as stated: kia(387580) = 19535 - (387580 - 129194) x 0.0756, a value that is
\* 0.02 to the cent.
KiaTopOfBracket3Original ==
    (kiaOut # None /\ total = 387580) =>
        /\ Get(kiaOut) = 195350000 - (387580 - 129194) * 756
        /\ 150 <= Get(kiaOut) /\ Get(kiaOut) < 250

\* C3, amended: kia(387580) = 19535 - (387580 - 129194) x 0.0756 = 1.0184, which is
\* 1.02 to the cent.
KiaTopOfBracket3 ==
    (kiaOut # None /\ total = 387580) =>
        /\ Get(kiaOut) = 195350000 - (387580 - 129194) * 756
        /\ Get(kiaOut) = 10184
        /\ 10150 <= Get(kiaOut) /\ Get(kiaOut) < 10250

\* the deduction for 387580 has been computed, and the one for 387579 before it
KiaTopOfBracket3Witness ==
    /\ total = 387580
    /\ kiaPrev # None
    /\ kiaOut # None
    /\ Get(kiaOut) > 0

\* C4 as stated: for consecutive whole-euro totals t, t+1 that do not straddle 69765 or
\* 129194, kia(t) <= kia(t+1) <= kia(t) + 0.28.
KiaMonotoneOriginal ==
    (kiaPrev # None /\ total - 1 \notin {69765, 129194}) =>
        /\ Get(kiaPrev) <= Get(kiaOut)
        /\ Get(kiaOut) <= Get(kiaPrev) + 2800

\* C4, amended: the deduction jumps between 2800 and 2801, between 69765 and 69766 and
\* between 387580 and 387581.  For every other pair of consecutive whole-euro totals
\* t, t+1: kia(t) <= kia(t+1) <= kia(t) + 0.28 when t < 129194 (non-decreasing), and
\* kia(t) - 0.0756 <= kia(t+1) <= kia(t) when t >= 129194 (non-increasing).
KiaMonotoneByRange ==
    (kiaPrev # None /\ total - 1 \notin {2800, 69765, 387580}) =>
        IF total - 1 < 129194
        THEN /\ Get(kiaPrev) <= Get(kiaOut)
             /\ Get(kiaOut) <= Get(kiaPrev) + 2800
        ELSE /\ Get(kiaOut) <= Get(kiaPrev)
             /\ Get(kiaPrev) - 756 <= Get(kiaOut)

\* a pair of consecutive totals inside the reducing bracket, the second deduction
\* 0.0756 below the first
KiaMonotoneByRangeWitness ==
    /\ total - 1 = 200000
    /\ kiaPrev # None
    /\ kiaOut = Some(Get(kiaPrev) - 756)

(***************************************************************************)
(* Properties of calculateBookValue (SpecBook).  The age is in time units; *)
(* a year of 365.25 days is 2922 of them.                                  *)
(***************************************************************************)
BookAge == bookNow - DateGetTime(Get(bookInv).date)

\* C5: with lifespanYears > 0 and age a, the result is exactly residualValue when
\* a >= lifespanYears, and otherwise the larger of residualValue and
\* purchaseValue - ((purchaseValue - residualValue) / lifespanYears) x a; for
\* (1000, 100, 5) it is 100 at a = 5, 100 at a = 10 and 550 at a = 2.5.
BookValueFormula ==
    bookOut # None =>
        LET inv == Get(bookInv)
            P == inv.purchaseValue
            R == inv.residualValue
            L == inv.lifespanYears
            linear == Frac(P * L * 2922 - (P - R) * BookAge, L * 2922)
            fixture == P = 1000 /\ R = 100 /\ L = 5
        IN  /\ BookAge >= L * 2922 => Get(bookOut) = Frac(R, 1)
            /\ BookAge < L * 2922 =>
                   Get(bookOut) = (IF FracLe(linear, Frac(R, 1)) THEN Frac(R, 1) ELSE linear)
            /\ (fixture /\ BookAge = 5 * 2922) => Get(bookOut) = Frac(100, 1)
            /\ (fixture /\ BookAge = 10 * 2922) => Get(bookOut) = Frac(100, 1)
            /\ (fixture /\ 2 * BookAge = 5 * 2922) => Get(bookOut) = Frac(550, 1)

\* the fixture investment, bought on 2020-01-01, valued 2.5 years later at 550
BookValueFormulaWitness ==
    /\ bookInv = Some([date |-> IsoDate(2020, 1, 1), purchaseValue |-> 1000,
                       residualValue |-> 100, lifespanYears |-> 5])
    /\ bookNow = DateGetTime(IsoDate(2020, 1, 1)) + 7305
    /\ bookOut = Some(Frac(550, 1))

\* C6: the result is never below residualValue, for every investment with
\* lifespanYears > 0 and every reference instant, instants before the acquisition date
\* included.
BookValueFloor ==
    bookOut # None => FracLe(Frac(Get(bookInv).residualValue, 1), Get(bookOut))

\* a book value computed at an instant before the acquisition date
BookValueFloorWitness ==
    /\ bookOut # None
    /\ BookAge < 0
    /\ Get(bookInv).lifespanYears > 0


(***************************************************************************)
(* Properties of the VAT return and the dashboard summary (Spec).  Money   *)
(* in report and summary is in ticks; amounts of lines and expenses are    *)
(* whole euros.                                                            *)
(***************************************************************************)
\* the calendar year and month of a 'YYYY-MM-DD' date
YearOf(date) == StrToNum(date, 1, 4)
MonthOf(date) == StrToNum(date, 6, 7)

\* the date lies in quarter q of year y of the calendar
InQuarter(date, y, q) == YearOf(date) = y /\ (MonthOf(date) + 2) \div 3 = q

\* the euros on the lines of one invoice at one rate
LineSum(inv, rate) ==
    SumSeq([j \in 1..Len(inv.lines) |->
               IF inv.lines[j].vatRate = rate THEN inv.lines[j].amount ELSE 0])

\* the euros at one rate on the SALES invoices of the store whose date is in the set D
SalesSum(rate, D) ==
    SumSeq([i \in 1..Len(invoices) |->
               IF invoices[i].type = SALES /\ invoices[i].date \in D
               THEN LineSum(invoices[i], rate) ELSE 0])

\* the euros of VAT on the expenses of the store whose date is in the set D
ExpenseVatSum(D) ==
    SumSeq([i \in 1..Len(expenses) |->
               IF expenses[i].date \in D THEN expenses[i].vatAmount ELSE 0])

\* the dates that occur in the store
DatesInStore ==
    {invoices[i].date : i \in 1..Len(invoices)} \cup {expenses[i].date : i \in 1..Len(expenses)}

\* the numeric fields of a VatReport
Numeric(r) ==
    <<r.turnoverHigh, r.vatHigh, r.turnoverLow, r.vatLow, r.vatDeductible, r.totalPayable>>

RemoveAt(seq, i) == SubSeq(seq, 1, i - 1) \o SubSeq(seq, i + 1, Len(seq))
InsertAt(seq, p, x) == SubSeq(seq, 1, p) \o <<x>> \o SubSeq(seq, p + 1, Len(seq))

\* the store of the worked example: the SALES invoices of the selected quarter are one
\* of 100 at 21% and one of 200 at 9%, and its one expense carries 10 of VAT
VatFixture ==
    LET inQ(d) == InQuarter(d, year, quarter)
        sales == SelectSeq(invoices, LAMBDA i : i.type = SALES /\ inQ(i.date))
        exps  == SelectSeq(expenses, LAMBDA e : inQ(e.date))
    IN  /\ Len(sales) = 2
        /\ {sales[1].lines, sales[2].lines} = {<<Line(100, 21)>>, <<Line(200, 9)>>}
        /\ Len(exps) = 1
        /\ exps[1].vatAmount = 10

(***************************************************************************)
(* C7: the report on display holds, for the selected year and quarter, the *)
(* sums over the SALES invoices dated in that quarter of the amounts at    *)
(* 21% and at 9%, 0.21 and 0.09 times those sums, the sum of vatAmount     *)
(* over the expenses dated in that quarter, and totalPayable = (vatHigh +  *)
(* vatLow) - vatDeductible, negative when the deductible VAT is the        *)
(* larger; on the store of the worked example it reads 100, 21, 200, 18,   *)
(* 10 and 29 euro.                                                         *)
(***************************************************************************)
VatReportSums ==
    report # None =>
        LET r == Get(report)
            inQ  == {d \in DatesInStore : InQuarter(d, year, quarter)}
            high == SalesSum(21, inQ)
            low  == SalesSum(9, inQ)
            ded  == ExpenseVatSum(inQ)
        IN  /\ r.turnoverHigh = high * Scale
            /\ r.vatHigh * 100 = high * 21 * Scale
            /\ r.turnoverLow = low * Scale
            /\ r.vatLow * 100 = low * 9 * Scale
            /\ r.vatDeductible = ded * Scale
            /\ r.totalPayable * 100 = (high * 21 + low * 9 - ded * 100) * Scale
            /\ VatFixture =>
                   Numeric(r) = <<100 * Scale, 21 * Scale, 200 * Scale, 18 * Scale,
                                  10 * Scale, 29 * Scale>>

\* the report of the worked example is on display
VatReportSumsWitness ==
    /\ report # None
    /\ VatFixture
    /\ Get(report).totalPayable = 29 * Scale

(***************************************************************************)
(* C8: whatever report is on display, computing it again after a line at   *)
(* rate 0 is inserted at any position of any invoice, or after any line at *)
(* rate 0 is removed from any invoice, gives the same six numeric fields.  *)
(***************************************************************************)
ZeroRatedLinesIgnored ==
    report # None =>
        \A i \in 1..Len(invoices) :
            LET lines == invoices[i].lines
                again(ls) == Get(calculate([invoices EXCEPT ![i].lines = ls], expenses,
                                           investments, year, quarter)).report
            IN  /\ \A p \in 0..Len(lines) :
                       Numeric(again(InsertAt(lines, p, Line(50, 0)))) = Numeric(Get(report))
                /\ \A p \in 1..Len(lines) :
                       lines[p].vatRate = 0 =>
                           Numeric(again(RemoveAt(lines, p))) = Numeric(Get(report))

\* a report on display counts a SALES invoice that holds a line at rate 0 among others
ZeroRatedLinesIgnoredWitness ==
    /\ report # None
    /\ Get(report).turnoverHigh > 0
    /\ \E i \in 1..Len(invoices) :
           /\ invoices[i].type = SALES
           /\ InQuarter(invoices[i].date, year, quarter)
           /\ \E p \in 1..Len(invoices[i].lines) : invoices[i].lines[p].vatRate = 0
           /\ LineSum(invoices[i], 21) > 0

(***************************************************************************)
(* C9: with the summary loaded and a report on display, every SALES        *)
(* invoice with status DRAFT leaves revenue and vatPayable of the summary  *)
(* what they are without it, while the report of the quarter that holds    *)
(* its date exceeds the report without it by its amounts at 21% and 9%     *)
(* and by 0.21 and 0.09 times them.                                        *)
(***************************************************************************)
DraftAsymmetry ==
    (session /\ report # None) =>
        \A i \in 1..Len(invoices) :
            (invoices[i].type = SALES /\ invoices[i].status = DRAFT) =>
                LET rest == RemoveAt(invoices, i)
                    s0 == loadSummary(rest, expenses, investments, correctionSetting)
                    r0 == Get(calculate(rest, expenses, investments, year, quarter)).report
                    r  == Get(report)
                    high == LineSum(invoices[i], 21)
                    low  == LineSum(invoices[i], 9)
                IN  /\ summary.revenue = s0.revenue
                    /\ summary.vatPayable = s0.vatPayable
                    /\ InQuarter(invoices[i].date, year, quarter) =>
                           /\ r.turnoverHigh = r0.turnoverHigh + high * Scale
                           /\ r.turnoverLow = r0.turnoverLow + low * Scale
                           /\ (r.vatHigh - r0.vatHigh) * 100 = high * 21 * Scale
                           /\ (r.vatLow - r0.vatLow) * 100 = low * 9 * Scale

\* the only SALES invoices are drafts of the selected quarter: the summary shows no
\* revenue and no VAT payable, the report shows turnover and VAT at both rates
DraftAsymmetryWitness ==
    /\ session
    /\ report # None
    /\ \E i \in 1..Len(invoices) :
           /\ invoices[i].type = SALES
           /\ invoices[i].status = DRAFT
           /\ InQuarter(invoices[i].date, year, quarter)
    /\ summary.revenue = 0
    /\ summary.vatPayable = 0
    /\ Get(report).turnoverHigh > 0
    /\ Get(report).vatLow > 0

(***************************************************************************)
(* C10: the report on display counts exactly the SALES invoices and the    *)
(* expenses whose date string d satisfies start <= d <= end, where start   *)
(* is the first month of the selected quarter with day 01 and end its last *)
(* month with day 31; both ends are inside that window, the day before the *)
(* start and the first day of the next quarter are outside it, and no      *)
(* PURCHASE invoice is counted.                                            *)
(***************************************************************************)
VatWindowClosed ==
    report # None =>
        LET r == Get(report)
            first == 3 * quarter - 2
            last  == 3 * quarter
            start == IsoDate(year, first, 1)
            end   == IsoDate(year, last, 31)
            dayBefore == IF quarter = 1 THEN IsoDate(year - 1, 12, 31)
                         ELSE IsoDate(year, first - 1, IF quarter = 2 THEN 31 ELSE 30)
            nextFirst == IF quarter = 4 THEN IsoDate(year + 1, 1, 1)
                         ELSE IsoDate(year, last + 1, 1)
            inWin(d) == StrLe(start, d) /\ StrLe(d, end)
            counted == {d \in DatesInStore : inWin(d)}
        IN  /\ r.turnoverHigh = SalesSum(21, counted) * Scale
            /\ r.turnoverLow = SalesSum(9, counted) * Scale
            /\ r.vatDeductible = ExpenseVatSum(counted) * Scale
            /\ inWin(start)
            /\ inWin(end)
            /\ ~inWin(dayBefore)
            /\ ~inWin(nextFirst)
            /\ \A i \in 1..Len(invoices) :
                   invoices[i].type = PURCHASE =>
                       Numeric(Get(calculate(RemoveAt(invoices, i), expenses, investments,
                                             year, quarter)).report) = Numeric(r)

\* the report of the first quarter of 2024 counts a SALES invoice and an expense dated
\* on its last day, and not the PURCHASE invoice of the same day
VatWindowClosedWitness ==
    /\ report # None
    /\ year = 2024
    /\ quarter = 1
    /\ \E i, j \in 1..Len(invoices) :
           /\ invoices[i].type = SALES
           /\ invoices[i].date = IsoDate(2024, 3, 31)
           /\ invoices[j].type = PURCHASE
           /\ invoices[j].date = IsoDate(2024, 3, 31)
           /\ LineSum(invoices[i], 21) > 0
           /\ Get(report).turnoverHigh = LineSum(invoices[i], 21) * Scale
    /\ \E k \in 1..Len(expenses) : expenses[k].date = IsoDate(2024, 3, 31)
    /\ Get(report).vatDeductible = 10 * Scale


\* the euros on all lines of one invoice, rate by rate
AllLinesSum(inv) == LineSum(inv, 0) + LineSum(inv, 9) + LineSum(inv, 21)

\* the invoices that count as sales in the summary: SALES, and not DRAFT
CountedSales == {i \in 1..Len(invoices) :
                    invoices[i].type = SALES /\ invoices[i].status # DRAFT}

QualifyingSum(Y) ==
    SumSeq([i \in 1..Len(investments) |->
               IF investments[i].purchaseValue > 449 /\ YearOf(investments[i].date) \in Y
               THEN investments[i].purchaseValue ELSE 0])

\* the years of acquisition that occur in the store
YearsInStore == {YearOf(investments[i].date) : i \in 1..Len(investments)}

(***************************************************************************)
(* C12: once the user is logged in, kiaDeduction of the summary is         *)
(* calculateKiaDeduction of the purchaseValue of all investments of 450    *)
(* euro or more, whatever their year, and investments of the summary is    *)
(* the purchaseValue of all investments, those below 450 euro included.    *)
(***************************************************************************)
SummaryKia ==
    session =>
        /\ summary.kiaDeduction = calculateKiaDeduction(QualifyingSum(YearsInStore))
        /\ summary.investments =
               SumSeq([i \in 1..Len(investments) |-> investments[i].purchaseValue]) * Scale

\* the store holds an investment of exactly 450 euro and one of 3000 euro of another
\* year: the deduction is 28% of 3450 euro
SummaryKiaWitness ==
    /\ session
    /\ \E i, j \in 1..Len(investments) :
           /\ investments[i].purchaseValue = 450
           /\ investments[j].purchaseValue = 3000
           /\ YearOf(investments[i].date) # YearOf(investments[j].date)
    /\ summary.kiaDeduction = 3450 * 2800
    /\ summary.investments = 3450 * Scale

(***************************************************************************)
(* C13: in the VAT return view, kiaStats.total is the purchaseValue of the *)
(* investments of 450 euro or more that were acquired in the selected      *)
(* year, kiaStats.deduction is calculateKiaDeduction of that total, and    *)
(* the calculation gives the same kiaStats for each of the four quarters   *)
(* of that year.                                                           *)
(***************************************************************************)
KiaStatsPerYear ==
    kiaStats # None =>
        /\ Get(kiaStats).total = QualifyingSum({year})
        /\ Get(kiaStats).deduction = calculateKiaDeduction(Get(kiaStats).total)
        /\ \A q \in 1..4 :
               Get(calculate(invoices, expenses, investments, year, q)).kiaStats
                   = Get(kiaStats)

\* 2024 is selected; the store holds 3000 euro acquired on its last day and 3000 euro
\* acquired the day after: the total is 3000 euro and the deduction 28% of it
KiaStatsPerYearWitness ==
    /\ kiaStats # None
    /\ year = 2024
    /\ \E i, j \in 1..Len(investments) :
           /\ investments[i] = [date |-> IsoDate(2024, 12, 31), purchaseValue |-> 3000,
                                residualValue |-> 0, lifespanYears |-> 5]
           /\ investments[j] = [date |-> IsoDate(2025, 1, 1), purchaseValue |-> 3000,
                                residualValue |-> 0, lifespanYears |-> 5]
    /\ Get(kiaStats).total = 3000
    /\ Get(kiaStats).deduction = 3000 * 2800


(***************************************************************************)
(* Properties of CompanyInfoView (SpecCompany).                            *)
(***************************************************************************)
\* the three summary fields and the correction of the render are all finite
CompanyInputsFinite ==
    /\ Get(coSummary).profit.kind = "fin"
    /\ Get(coSummary).investments.kind = "fin"
    /\ Get(coSummary).vatTotal.kind = "fin"
    /\ Get(coCorrection).kind = "fin"

\* the sum of a sequence of finite numbers
RECURSIVE FinSum(_)
FinSum(seq) == IF seq = <<>> THEN 0 ELSE seq[1].v + FinSum(Tail(seq))

(***************************************************************************)
(* C14: when profit, investments, vatTotal and the correction are finite,  *)
(* the company value a render shows is profit + investments - vatTotal +   *)
(* correction.                                                             *)
(***************************************************************************)
CompanyValueFormula ==
    (companyOut # None /\ CompanyInputsFinite) =>
        Get(companyOut).safeCompanyValue =
            Fin(Get(coSummary).profit.v + Get(coSummary).investments.v
                - Get(coSummary).vatTotal.v + Get(coCorrection).v)

\* a render on a profit of 100, investments of 100, a VAT total of -30 and a correction
\* of 100 euro shows 330 euro
CompanyValueFormulaWitness ==
    /\ companyOut # None
    /\ Get(coSummary) = [profit |-> Fin(100 * Scale), investments |-> Fin(100 * Scale),
                         vatTotal |-> Fin(-30 * Scale)]
    /\ Get(coCorrection) = Fin(100 * Scale)
    /\ Get(companyOut).safeCompanyValue = Fin(330 * Scale)

(***************************************************************************)
(* C15, as stated: whenever the company value computed from the summary    *)
(* and the correction is not finite, the value shown is 0 and every        *)
(* shareholder's share is 0.                                               *)
(***************************************************************************)
CompanyValueClampsNonFinite ==
    (companyOut # None /\ Get(companyOut).companyValue.kind # "fin") =>
        /\ Get(companyOut).safeCompanyValue = Fin(0)
        /\ \A i \in DOMAIN shareholders : Get(companyOut).shareValue[i] = Fin(0)

\* a render whose company value is an infinity shows that infinity, and the share of
\* a shareholder is an infinity too
CompanyValueInfinityShown ==
    /\ companyOut # None
    /\ Get(companyOut).companyValue = Infinity(1)
    /\ Get(companyOut).safeCompanyValue = Infinity(1)
    /\ \E i \in DOMAIN shareholders : Get(companyOut).shareValue[i] = Infinity(1)

(***************************************************************************)
(* C16, as stated: each share is the company value times the percentage    *)
(* over 100, and whenever the percentages do not sum to 100 the shares do  *)
(* not sum to the company value.                                           *)
(***************************************************************************)
SharesDifferOriginal ==
    (companyOut # None /\ Get(companyOut).safeCompanyValue.kind = "fin") =>
        LET out == Get(companyOut)
        IN  /\ \A i \in DOMAIN shareholders :
                   out.shareValue[i] = Fin(out.safeCompanyValue.v * shareholders[i])
            /\ SumSeq(shareholders) # 100 =>
                   FinSum(out.shareValue) # out.safeCompanyValue.v * 100

(***************************************************************************)
(* C16, amended: for a finite company value each share is the company      *)
(* value times the percentage over 100, the shares sum to the company      *)
(* value times the sum of the percentages over 100, and that sum differs   *)
(* from the company value exactly when the percentages do not sum to 100   *)
(* and the company value is not 0.  (Shares are in hundredths of a tick.)  *)
(***************************************************************************)
SharesNotNormalised ==
    (companyOut # None /\ Get(companyOut).safeCompanyValue.kind = "fin") =>
        LET out == Get(companyOut)
        IN  /\ \A i \in DOMAIN shareholders :
                   out.shareValue[i] = Fin(out.safeCompanyValue.v * shareholders[i])
            /\ FinSum(out.shareValue) = out.safeCompanyValue.v * SumSeq(shareholders)
            /\ (FinSum(out.shareValue) # out.safeCompanyValue.v * 100)
                   <=> (SumSeq(shareholders) # 100 /\ out.safeCompanyValue.v # 0)

\* two shareholders of 40% each of a company value of 100 euro: shares of 40 euro each,
\* 80 euro together
SharesNotNormalisedWitness ==
    /\ companyOut # None
    /\ shareholders = <<40, 40>>
    /\ Get(companyOut).safeCompanyValue = Fin(100 * Scale)
    /\ Get(companyOut).shareValue = <<Fin(40 * Scale * 100), Fin(40 * Scale * 100)>>


(***************************************************************************)
(* Properties of the upload forms (SpecForm), in exact arithmetic.         *)
(***************************************************************************)
\* net + vat = gross and vat = net x rate / 100, with the amount typed as the gross
\* when VAT is included and as the net when it is not
VatTriple(c) ==
    /\ FracAdd(c.excl, c.vat) = c.total
    /\ c.vat = FracMul(c.excl, Frac(formRate, 100))
    /\ formIncluded => c.total = formAmount
    /\ ~formIncluded => c.excl = formAmount

DbSalesSum(rate, y, q) ==
    IF dbInvoices = None THEN 0
    ELSE SumSeq([i \in 1..Len(Get(dbInvoices)) |->
                    LET row == Get(dbInvoices)[i]
                    IN  IF row.lines # None /\ InQuarter(row.date, y, q)
                        THEN LineSum([lines |-> Get(row.lines)], rate) ELSE 0])

\* the euros on all lines of the rows of the invoices query that have lines
DbRevenue ==
    IF dbInvoices = None THEN 0
    ELSE SumSeq([i \in 1..Len(Get(dbInvoices)) |->
                    LET row == Get(dbInvoices)[i]
                    IN  IF row.lines # None THEN AllLinesSum([lines |-> Get(row.lines)])
                        ELSE 0])

(***************************************************************************)
(* C20 (SpecMissing): a query that yields null data contributes 0 to the   *)
(* summary and to the VAT report and the KIA figures, and an invoice row   *)
(* whose lines are null contributes 0 while the other rows count in full;  *)
(* with an unconfigured client nobody is logged in, the summary keeps its  *)
(* initial zeros and no report is computed.  Every summary and report of   *)
(* the behaviours is a value: none of the computations fails.              *)
(***************************************************************************)
MissingAsEmpty ==
    /\ session =>
           /\ summary.revenue = DbRevenue * Scale
           /\ dbInvoices = None => summary.revenue = 0 /\ summary.vatPayable = 0
           /\ dbExpenses = None => summary.expenses = 0 /\ summary.vatDeductible = 0
           /\ dbInvestments = None => summary.investments = 0 /\ summary.kiaDeduction = 0
           /\ summary = loadSummary(IF dbInvoices = None THEN <<>> ELSE invoices,
                                    IF dbExpenses = None THEN <<>> ELSE expenses,
                                    IF dbInvestments = None THEN <<>> ELSE investments,
                                    correctionSetting)
    /\ report # None =>
           LET r == Get(report)
           IN  /\ r.turnoverHigh = DbSalesSum(21, year, quarter) * Scale
               /\ r.turnoverLow = DbSalesSum(9, year, quarter) * Scale
               /\ dbInvoices = None => r.vatHigh = 0 /\ r.vatLow = 0
               /\ dbExpenses = None => r.vatDeductible = 0
               /\ dbInvestments = None =>
                      Get(kiaStats).total = 0 /\ Get(kiaStats).deduction = 0
    /\ ~client => ~session /\ summary = InitialSummary /\ report = None

\* a report is on display for the first quarter of 2024 although the expenses and the
\* investments queries yielded null, and of two invoice rows of that quarter the one
\* without lines counts for nothing
MissingAsEmptyWitness ==
    /\ session
    /\ report # None
    /\ year = 2024
    /\ quarter = 1
    /\ dbExpenses = None
    /\ dbInvestments = None
    /\ dbInvoices # None
    /\ \E i, j \in 1..Len(Get(dbInvoices)) :
           /\ Get(dbInvoices)[i].lines = None
           /\ Get(dbInvoices)[j].lines # None
           /\ Get(dbInvoices)[i].date = IsoDate(2024, 3, 31)
           /\ Get(dbInvoices)[j].date = IsoDate(2024, 3, 31)
    /\ Get(report).turnoverHigh = 100 * Scale
    /\ Get(report).vatDeductible = 0
    /\ Get(kiaStats).total = 0
    /\ summary.expenses = 0

(***************************************************************************)
(* SpecRuns: App.loadSummary as the asynchronous function it is.  A run    *)
(* issues its four fetches and is suspended at the await; each query is    *)
(* answered on its own, on the data stored at that moment, or with an      *)
(* error; the run continues once the fourth answer is in.  Runs are        *)
(* started by the effect on [session, activeTab] and by                    *)
(* CompanyInfoView.handleCorrectionChange, which first writes the setting. *)
(***************************************************************************)
MaxRuns == 2

\* the dashboard and the company view
RunTabs == {"DASHBOARD", "COMPANY"}

\* what the user types in the correction input
CorrectionInputs == {0, 250}

\* the four fetches of Promise.all, by the name their result is bound to
Queries == {"inv", "exp", "invest", "correctionVal"}

\* a run suspended at the await with no query answered
NewRun == [inv |-> None, exp |-> None, invest |-> None, correctionVal |-> None]

\* return data?.value || null
getSettings(row) == IF row = None \/ Get(row) = 0 THEN None ELSE row

\* what a fetch resolves to on the data stored now; ok = the query returned no error.
\* getSettings logs an error and resolves to null; the other three only resolve when ok
FetchResult(q, ok) ==
    CASE q = "inv" -> getInvoices(client, dbInvoices)
      [] q = "exp" -> getExpenses(client, dbExpenses)
      [] q = "invest" -> getInvestments(client, dbInvestments)
      [] OTHER -> IF ok THEN getSettings(correctionSetting) ELSE None

\* loadSummary from its first line to the await, in a render that holds a session
LoadSummaryStart ==
    pending' = Append(pending, NewRun)

\* the runs without the k-th
DropRun(k) == [i \in 1..(Len(pending) - 1) |-> IF i < k THEN pending[i] ELSE pending[i + 1]]

\* Faulty variant of QueryAnswered: a run goes on as soon as the invoices are in and
\* sets the summary with what it has
QueryAnswered_setsEarly(k, q, ok) ==
    /\ k \in DOMAIN pending
    /\ pending[k][q] = None
    /\ IF ~ok /\ q # "correctionVal"
       THEN /\ pending' = DropRun(k)
            /\ event' = "reject"
            /\ UNCHANGED summary
       ELSE LET run == [pending[k] EXCEPT ![q] = Some(FetchResult(q, ok))]
            IN  IF run.inv # None
                THEN /\ summary' = loadSummary(Get(run.inv),
                                               IF run.exp = None THEN <<>> ELSE Get(run.exp),
                                               IF run.invest = None THEN <<>>
                                               ELSE Get(run.invest),
                                               IF run.correctionVal = None THEN None
                                               ELSE Get(run.correctionVal))
                     /\ pending' = DropRun(k)
                     /\ event' = "set"
                ELSE /\ pending' = [pending EXCEPT ![k] = run]
                     /\ event' = IF ok THEN "answer" ELSE "settingsError"
                     /\ UNCHANGED summary
    /\ UNCHANGED <<storeVars, session, activeTab, vatVars>>
    /\ UNCHANGED <<kiaVars, bookVars, companyVars, formVars, besidesRun>>

\* a query of run k is answered.  With an error, handleError throws in getInvoices,
\* getExpenses and getInvestments, Promise.all rejects and the run ends there; with the
\* fourth answer the run goes on to setSummary
QueryAnswered(k, q, ok) ==
    /\ k \in DOMAIN pending
    /\ pending[k][q] = None
    /\ IF ~ok /\ q # "correctionVal"
       THEN /\ pending' = DropRun(k)
            /\ event' = "reject"
            /\ UNCHANGED summary
       ELSE LET run == [pending[k] EXCEPT ![q] = Some(FetchResult(q, ok))]
            IN  IF \A x \in Queries : run[x] # None
                THEN /\ summary' = loadSummary(Get(run.inv), Get(run.exp), Get(run.invest),
                                               Get(run.correctionVal))
                     /\ pending' = DropRun(k)
                     /\ event' = IF ok THEN "set" ELSE "settingsError"
                ELSE /\ pending' = [pending EXCEPT ![k] = run]
                     /\ event' = IF ok THEN "answer" ELSE "settingsError"
                     /\ UNCHANGED summary
    /\ UNCHANGED <<storeVars, session, activeTab, vatVars>>
    /\ UNCHANGED <<kiaVars, bookVars, companyVars, formVars, besidesRun>>

\* CompanyInfoView mounts with correction 0 and load() sets it if the setting is truthy;
\* any other view holds no correction
CompanyViewCorrection(tab) ==
    IF tab # "COMPANY" THEN None
    ELSE IF getSettings(correctionSetting) = None THEN Some(Fin(0))
    ELSE Some(Fin(Get(correctionSetting) * Scale))

\* onAuthStateChange with a session: setSession, then the effect on [session, activeTab]
\* starts a run
RunsAuthStateChange ==
    /\ client
    /\ ~session
    /\ Len(pending) < MaxRuns
    /\ session' = TRUE
    /\ LoadSummaryStart
    /\ event' = "start"
    /\ coCorrection' = CompanyViewCorrection(activeTab)
    /\ UNCHANGED <<storeVars, activeTab, summary, vatVars>>
    /\ UNCHANGED <<coSummary, shareholders, companyOut>>
    /\ UNCHANGED <<kiaVars, bookVars, formVars, besidesRun>>

\* NavItem onClick: setActiveTab(id), then the effect on [session, activeTab] starts a run
RunsSetActiveTab(id) ==
    /\ session
    /\ id # activeTab
    /\ Len(pending) < MaxRuns
    /\ activeTab' = id
    /\ LoadSummaryStart
    /\ event' = "start"
    /\ coCorrection' = CompanyViewCorrection(id)
    /\ UNCHANGED <<storeVars, session, summary, vatVars>>
    /\ UNCHANGED <<coSummary, shareholders, companyOut>>
    /\ UNCHANGED <<kiaVars, bookVars, formVars, besidesRun>>

\* the correction input: setCorrection(val); await updateSettings(key, val), which throws
\* on an error; onSummaryUpdate() starts a run
handleCorrectionChange(val, ok) ==
    /\ session
    /\ activeTab = "COMPANY"
    /\ coCorrection # Some(Fin(val * Scale))
    /\ coCorrection' = Some(Fin(val * Scale))
    /\ IF ok
       THEN /\ Len(pending) < MaxRuns
            /\ correctionSetting' = Some(val)
            /\ LoadSummaryStart
            /\ event' = "start"
       ELSE /\ event' = "none"
            /\ UNCHANGED <<correctionSetting, pending>>
    /\ UNCHANGED <<invoices, expenses, investments, dbVars, session, activeTab, summary, vatVars>>
    /\ UNCHANGED <<coSummary, shareholders, companyOut>>
    /\ UNCHANGED <<kiaVars, bookVars, formVars, besidesRun>>

RunsInit ==
    /\ invoices = LedgerInvoices
    /\ expenses = LedgerExpenses
    /\ investments = StoreInvestments
    /\ correctionSetting \in StoreCorrections
    /\ DbHolds
    /\ session = FALSE
    /\ activeTab \in RunTabs
    /\ summary = InitialSummary
    /\ year = 0
    /\ quarter = 0
    /\ report = None
    /\ kiaStats = None
    /\ KiaIdle
    /\ BookIdle
    /\ CompanyIdle
    /\ FormIdle
    /\ UiIdle

RunsNext ==
    \/ RunsAuthStateChange
    \/ \E id \in RunTabs : RunsSetActiveTab(id)
    \/ \E val \in CorrectionInputs, ok \in BOOLEAN : handleCorrectionChange(val, ok)
    \/ \E k \in 1..MaxRuns, q \in Queries, ok \in BOOLEAN : QueryAnswered(k, q, ok)

SpecRuns == RunsInit /\ [][RunsNext]_vars

\* SpecRaces: the same runs when no query returns an error and no write fails
RacesNext ==
    \/ RunsAuthStateChange
    \/ \E id \in RunTabs : RunsSetActiveTab(id)
    \/ \E val \in CorrectionInputs : handleCorrectionChange(val, TRUE)
    \/ \E k \in 1..MaxRuns, q \in Queries : QueryAnswered(k, q, TRUE)

SpecRaces == RunsInit /\ [][RacesNext]_vars

(***************************************************************************)
(* SpecCalc: the effect of VatReturnView on [year, quarter] as the         *)
(* asynchronous function it starts.  A calculate run holds the year and    *)
(* the quarter of the render that started it and awaits getInvoices,       *)
(* getExpenses and getInvestments one after the other; after the third     *)
(* answer it calls setReport and setKiaStats.  The effect has no cleanup.  *)
(***************************************************************************)
MaxCalcs == 2

\* the quarters the user selects here: two of the four options
CalcQuarters == {1, 2}

\* a run suspended at its first await
NewCalc(y, q) == [year |-> y, quarter |-> q, invoices |-> None, expenses |-> None]

\* calculate from its first line to the first await: if (!qData) return
CalculateStart(y, q) ==
    calcs' = IF FindQuarter(q) = None THEN calcs ELSE Append(calcs, NewCalc(y, q))

\* the runs without the k-th
DropCalc(k) == [i \in 1..(Len(calcs) - 1) |-> IF i < k THEN calcs[i] ELSE calcs[i + 1]]

\* the fetch that run k awaits is answered.  With an error handleError throws and the
\* run ends there; with the third answer the run goes on to setReport and setKiaStats
CalcAnswered(k, ok) ==
    /\ k \in DOMAIN calcs
    /\ LET run == calcs[k]
       IN  IF ~ok
           THEN /\ calcs' = DropCalc(k)
                /\ UNCHANGED <<report, kiaStats>>
           ELSE IF run.invoices = None
           THEN /\ calcs' = [calcs EXCEPT ![k].invoices =
                                              Some(getInvoices(client, dbInvoices))]
                /\ UNCHANGED <<report, kiaStats>>
           ELSE IF run.expenses = None
           THEN /\ calcs' = [calcs EXCEPT ![k].expenses =
                                              Some(getExpenses(client, dbExpenses))]
                /\ UNCHANGED <<report, kiaStats>>
           ELSE LET r == Get(calculate(Get(run.invoices), Get(run.expenses),
                                       getInvestments(client, dbInvestments),
                                       run.year, run.quarter))
                IN  /\ calcs' = DropCalc(k)
                    /\ report' = Some(r.report)
                    /\ kiaStats' = Some(r.kiaStats)
    /\ UNCHANGED <<storeVars, session, activeTab, summary, year, quarter>>
    /\ UNCHANGED <<kiaVars, bookVars, companyVars, formVars, besidesCalc>>

\* the year select: setYear(parseInt(e.target.value)); the effect starts a run
CalcSetYear(y) ==
    /\ session
    /\ activeTab = "VAT"
    /\ y # year
    /\ Len(calcs) < MaxCalcs
    /\ year' = y
    /\ CalculateStart(y, quarter)
    /\ UNCHANGED <<storeVars, session, activeTab, summary, quarter, report, kiaStats>>
    /\ UNCHANGED <<kiaVars, bookVars, companyVars, formVars, besidesCalc>>

\* the quarter select: setQuarter(parseInt(e.target.value)); the effect starts a run
CalcSetQuarter(q) ==
    /\ session
    /\ activeTab = "VAT"
    /\ q # quarter
    /\ Len(calcs) < MaxCalcs
    /\ quarter' = q
    /\ CalculateStart(year, q)
    /\ UNCHANGED <<storeVars, session, activeTab, summary, year, report, kiaStats>>
    /\ UNCHANGED <<kiaVars, bookVars, companyVars, formVars, besidesCalc>>

\* logged in, the VAT tab just opened: year and quarter from the clock, no report yet,
\* the run of the first effect in flight
CalcInit ==
    /\ invoices \in Tables(SetToSeq(InvoiceRows), 1)
    /\ expenses = LedgerExpenses
    /\ investments = StoreInvestments
    /\ correctionSetting = None
    /\ DbHolds
    /\ session = TRUE
    /\ activeTab = "VAT"
    /\ summary = loadSummary(invoices, expenses, investments, correctionSetting)
    /\ year \in ClockYears
    /\ quarter \in CalcQuarters
    /\ report = None
    /\ kiaStats = None
    /\ RunIdle
    /\ calcs = <<NewCalc(year, quarter)>>
    /\ SaveIdle
    /\ QuarterIdle
    /\ AdviceIdle
    /\ KiaIdle
    /\ BookIdle
    /\ CompanyIdle
    /\ FormIdle

\* every query succeeds
CalcNext ==
    \/ \E y \in SelectYears : CalcSetYear(y)
    \/ \E q \in CalcQuarters : CalcSetQuarter(q)
    \/ \E k \in 1..MaxCalcs : CalcAnswered(k, TRUE)

SpecCalc == CalcInit /\ [][CalcNext]_vars

(***************************************************************************)
(* SpecUpload and SpecSave: the upload views InvoicesView, ExpensesView    *)
(* and InvestmentsView.  One view is mounted at a time, with its own view  *)
(* and form state; a tab change mounts the view of the tab afresh and      *)
(* reloads the summary.  Stored amounts being whole euros in this model,   *)
(* the saves followed are those whose net and VAT amounts are whole euros. *)
(***************************************************************************)
MaxUploads == 2
MaxSaves == 1

UploadTabs == {"INVOICES", "EXPENSES", "INVESTMENTS"}

\* new Date().toISOString().split('T')[0], the date of a new form
UploadDate == IsoDate(2024, 3, 31)

\* what parseFloat yields for the amount input: NaN for an empty input, 0, or 121
SaveAmounts == {NaN, Frac(0, 1), Frac(121, 1)}

\* two of the three options of the rate select
SaveRates == {0, 21}

\* form.companyId and form.description: empty, or filled in
SaveTexts == {"", "x"}

\* !x for a number: true of 0 and of NaN
Falsy(x) == IF x = NaN THEN TRUE ELSE x.num = 0

\* a number that is a whole number of euros
Whole(x) == x.den = 1

\* the rows the three collections hold together
StoreSize == Len(invoices) + Len(expenses) + Len(investments)

\* the table of invoices after a write
WriteInvoices(rows) ==
    /\ invoices' = rows
    /\ dbInvoices' = Some([i \in DOMAIN rows |-> toDbInvoice(rows[i])])
    /\ UNCHANGED <<client, dbExpenses, dbInvestments, expenses, investments,
                   correctionSetting>>

\* the table of expenses after a write
WriteExpenses(rows) ==
    /\ expenses' = rows
    /\ dbExpenses' = Some(rows)
    /\ UNCHANGED <<client, dbInvoices, dbInvestments, invoices, investments,
                   correctionSetting>>

\* the table of investments after a write
WriteInvestments(rows) ==
    /\ investments' = rows
    /\ dbInvestments' = Some(rows)
    /\ UNCHANGED <<client, dbInvoices, dbExpenses, invoices, expenses, correctionSetting>>

\* useState of a form: the initial form
FormReset ==
    /\ formText' = ""
    /\ formAmount' = Frac(0, 1)
    /\ formIncluded' = TRUE
    /\ formRate' = 21

\* InvoicesView.fetchData: setInvoices(i); the other views hold no invoices
FetchList(tab, rows) == listInvoices' = IF tab = "INVOICES" THEN rows ELSE <<>>

\* NavItem onClick: setActiveTab(id); the effect on [session, activeTab] runs loadSummary
\* and the view of the tab mounts with its initial state and fetches its data
SaveSetActiveTab(id) ==
    /\ session
    /\ id # activeTab
    /\ activeTab' = id
    /\ summary' = loadSummary(invoices, expenses, investments, correctionSetting)
    /\ view' = "LIST"
    /\ FormReset
    /\ invType' = SALES
    /\ FetchList(id, invoices)
    /\ saveOutcome' = "none"
    /\ UNCHANGED <<storeVars, session, vatVars>>
    /\ UNCHANGED <<formNet, expenseCalculated, invoiceCalculated>>
    /\ UNCHANGED <<kiaVars, bookVars, companyVars, besidesSave>>

\* the upload button of a list: setView('NEW'); the effect on [view] fetches the data
OpenNew ==
    /\ activeTab \in UploadTabs
    /\ view = "LIST"
    /\ view' = "NEW"
    /\ FetchList(activeTab, invoices)
    /\ saveOutcome' = "none"
    /\ UNCHANGED <<appVars, formVars, formText, invType>>
    /\ UNCHANGED <<kiaVars, bookVars, companyVars, besidesSave>>

\* Annuleren: setView('LIST'); the form is kept
CancelNew ==
    /\ activeTab \in UploadTabs
    /\ view = "NEW"
    /\ view' = "LIST"
    /\ FetchList(activeTab, invoices)
    /\ saveOutcome' = "none"
    /\ UNCHANGED <<appVars, formVars, formText, invType>>
    /\ UNCHANGED <<kiaVars, bookVars, companyVars, besidesSave>>

\* an input of the form that is open
FormInput(text, amt, incl, rate, type) ==
    /\ activeTab \in UploadTabs
    /\ view = "NEW"
    /\ <<text, amt, incl, rate, type>> # <<formText, formAmount, formIncluded, formRate, invType>>
    /\ formText' = text
    /\ formAmount' = amt
    /\ formIncluded' = incl
    /\ formRate' = rate
    /\ invType' = type
    /\ saveOutcome' = "none"
    /\ UNCHANGED <<appVars, view, listInvoices>>
    /\ UNCHANGED <<formNet, expenseCalculated, invoiceCalculated>>
    /\ UNCHANGED <<kiaVars, bookVars, companyVars, besidesSave>>

\* Omschrijving, and Bedrijf of the invoice form
SetText(text) ==
    /\ text # formText
    /\ FormInput(text, formAmount, formIncluded, formRate, invType)

\* Bedrag (Invoer), and Aanschafwaarde of the investment form: parseFloat(e.target.value)
SetAmount(amt) ==
    /\ amt # formAmount
    /\ FormInput(formText, amt, formIncluded, formRate, invType)

\* Bedrag is: e.target.value === 'INCL'
SetIncluded(incl) ==
    /\ activeTab # "INVESTMENTS"
    /\ FormInput(formText, formAmount, incl, formRate, invType)

\* BTW Tarief: parseInt(e.target.value)
SetRate(rate) ==
    /\ activeTab # "INVESTMENTS"
    /\ FormInput(formText, formAmount, formIncluded, rate, invType)

\* Type of the invoice form
SetInvType(type) ==
    /\ activeTab = "INVOICES"
    /\ FormInput(formText, formAmount, formIncluded, formRate, type)

\* a save that returned at the test of the form: nothing is set
SaveRejected ==
    /\ saveOutcome' = "rejected"
    /\ UNCHANGED <<appVars, formVars, view, formText, invType, listInvoices>>

\* a save whose write returned an error: handleError throws and the handler ends there
SaveFailed ==
    /\ saveOutcome' = "failed"
    /\ UNCHANGED <<appVars, formVars, view, formText, invType, listInvoices>>

\* after the write of a save: setView('LIST') and the initial form
SaveDone ==
    /\ view' = "LIST"
    /\ FormReset
    /\ saveOutcome' = "saved"
    /\ UNCHANGED <<session, activeTab, summary, vatVars>>
    /\ UNCHANGED <<formNet, expenseCalculated, invoiceCalculated, invType>>

\* Faulty variant of InvoicesHandleSave: the line holds the total and the invoice is
\* stored as PAID
InvoicesHandleSave_storesGross(ok, cap) ==
    /\ activeTab = "INVOICES"
    /\ view = "NEW"
    /\ IF formText = "" \/ Falsy(formAmount) THEN SaveRejected
       ELSE LET calculated == InvoiceCalculated(formAmount, formRate, formIncluded)
                line == Line(calculated.total.num, formRate)
                row == [type |-> invType, status |-> PAID, date |-> UploadDate,
                        lines |-> <<line>>]
            IN  /\ Whole(calculated.excl)
                /\ Whole(calculated.total)
                /\ StoreSize < cap + 1
                /\ IF ok
                   THEN /\ WriteInvoices(Append(invoices, row))
                        /\ SaveDone
                        /\ FetchList(activeTab, Append(invoices, row))
                   ELSE SaveFailed
    /\ UNCHANGED <<kiaVars, bookVars, companyVars, besidesSave>>

\* InvoicesView.handleSave: one line of calculated.excl at form.vatRate, status DRAFT
InvoicesHandleSave(ok, cap) ==
    /\ activeTab = "INVOICES"
    /\ view = "NEW"
    /\ IF formText = "" \/ Falsy(formAmount) THEN SaveRejected
       ELSE LET calculated == InvoiceCalculated(formAmount, formRate, formIncluded)
                line == Line(calculated.excl.num, formRate)
                row == [type |-> invType, status |-> DRAFT, date |-> UploadDate,
                        lines |-> <<line>>]
            IN  /\ Whole(calculated.excl)
                /\ StoreSize < cap + 1
                /\ IF ok
                   THEN /\ WriteInvoices(Append(invoices, row))
                        /\ SaveDone
                        /\ FetchList(activeTab, Append(invoices, row))
                   ELSE SaveFailed
    /\ UNCHANGED <<kiaVars, bookVars, companyVars, besidesSave>>

\* Faulty variant of ExpensesHandleSave: the amount is not tested
ExpensesHandleSave_savesZero(ok, cap) ==
    /\ activeTab = "EXPENSES"
    /\ view = "NEW"
    /\ IF formText = "" \/ formAmount = NaN THEN SaveRejected
       ELSE LET calculated == ExpenseCalculated(formAmount, formRate, formIncluded)
                row == [date |-> UploadDate, amountExcl |-> calculated.excl.num,
                        vatAmount |-> calculated.vat.num]
            IN  /\ Whole(calculated.excl)
                /\ Whole(calculated.vat)
                /\ StoreSize < cap + 1
                /\ IF ok
                   THEN /\ WriteExpenses(Append(expenses, row))
                        /\ SaveDone
                        /\ UNCHANGED listInvoices
                   ELSE SaveFailed
    /\ UNCHANGED <<kiaVars, bookVars, companyVars, besidesSave>>

\* ExpensesView.handleSave: amountExcl: calculated.excl, vatAmount: calculated.vat
ExpensesHandleSave(ok, cap) ==
    /\ activeTab = "EXPENSES"
    /\ view = "NEW"
    /\ IF formText = "" \/ Falsy(formAmount) THEN SaveRejected
       ELSE LET calculated == ExpenseCalculated(formAmount, formRate, formIncluded)
                row == [date |-> UploadDate, amountExcl |-> calculated.excl.num,
                        vatAmount |-> calculated.vat.num]
            IN  /\ Whole(calculated.excl)
                /\ Whole(calculated.vat)
                /\ StoreSize < cap + 1
                /\ IF ok
                   THEN /\ WriteExpenses(Append(expenses, row))
                        /\ SaveDone
                        /\ UNCHANGED listInvoices
                   ELSE SaveFailed
    /\ UNCHANGED <<kiaVars, bookVars, companyVars, besidesSave>>

\* InvestmentsView.handleSave: purchaseValue: form.purchaseValue, with the residual value
\* and the lifespan of the initial form
InvestmentsHandleSave(ok, cap) ==
    /\ activeTab = "INVESTMENTS"
    /\ view = "NEW"
    /\ IF formText = "" \/ Falsy(formAmount) THEN SaveRejected
       ELSE LET row == [date |-> UploadDate, purchaseValue |-> formAmount.num,
                        residualValue |-> 0, lifespanYears |-> 5]
            IN  /\ Whole(formAmount)
                /\ StoreSize < cap + 1
                /\ IF ok
                   THEN /\ WriteInvestments(Append(investments, row))
                        /\ SaveDone
                        /\ UNCHANGED listInvoices
                   ELSE SaveFailed
    /\ UNCHANGED <<kiaVars, bookVars, companyVars, besidesSave>>

\* Faulty variant of MarkPaid: the action is offered on every row and takes a PAID
\* invoice back to DRAFT
MarkPaid_toggles(k, ok) ==
    /\ activeTab = "INVOICES"
    /\ view = "LIST"
    /\ k \in DOMAIN listInvoices
    /\ listInvoices[k].type = SALES
    /\ saveOutcome' = "none"
    /\ IF ok
       THEN LET rows == [invoices EXCEPT ![k].status = IF @ = PAID THEN DRAFT ELSE PAID]
            IN  /\ WriteInvoices(rows)
                /\ listInvoices' = rows
       ELSE UNCHANGED <<storeVars, listInvoices>>
    /\ UNCHANGED <<session, activeTab, summary, vatVars, formVars, view, formText, invType>>
    /\ UNCHANGED <<kiaVars, bookVars, companyVars, besidesSave>>

\* Markeer Betaald, rendered on the SALES rows of the list whose status is not PAID:
\* await updateInvoiceStatus(inv.id, PaymentStatus.PAID); fetchData()
MarkPaid(k, ok) ==
    /\ activeTab = "INVOICES"
    /\ view = "LIST"
    /\ k \in DOMAIN listInvoices
    /\ listInvoices[k].type = SALES
    /\ listInvoices[k].status # PAID
    /\ saveOutcome' = "none"
    /\ IF ok
       THEN LET rows == [invoices EXCEPT ![k].status = PAID]
            IN  /\ WriteInvoices(rows)
                /\ listInvoices' = rows
       ELSE UNCHANGED <<storeVars, listInvoices>>
    /\ UNCHANGED <<session, activeTab, summary, vatVars, formVars, view, formText, invType>>
    /\ UNCHANGED <<kiaVars, bookVars, companyVars, besidesSave>>

\* logged in on the dashboard, one sales invoice stored that was sent or paid
UploadInit ==
    /\ invoices \in {<<[type |-> SALES, status |-> st, date |-> IsoDate(2024, 4, 1),
                        lines |-> <<Line(100, 21)>>]>> : st \in {SENT, OVERDUE, PAID}}
    /\ expenses = <<>>
    /\ investments = <<>>
    /\ correctionSetting = None
    /\ DbHolds
    /\ session = TRUE
    /\ activeTab = "DASHBOARD"
    /\ summary = loadSummary(invoices, expenses, investments, correctionSetting)
    /\ year = 0
    /\ quarter = 0
    /\ report = None
    /\ kiaStats = None
    /\ KiaIdle
    /\ BookIdle
    /\ CompanyIdle
    /\ FormIdle
    /\ UiIdle

\* SpecUpload: the dashboard and the invoices view, with sales invoices only
UploadNext ==
    \/ \E id \in {"DASHBOARD", "INVOICES"} : SaveSetActiveTab(id)
    \/ OpenNew
    \/ CancelNew
    \/ \E text \in SaveTexts : SetText(text)
    \/ \E amt \in {Frac(0, 1), Frac(121, 1)} : SetAmount(amt)
    \/ \E incl \in BOOLEAN : SetIncluded(incl)
    \/ \E rate \in SaveRates : SetRate(rate)
    \/ \E ok \in BOOLEAN : InvoicesHandleSave(ok, MaxUploads)
    \/ \E k \in 1..(MaxUploads + 1), ok \in BOOLEAN : MarkPaid(k, ok)

SpecUpload == UploadInit /\ [][UploadNext]_vars

\* SpecSave: the three upload views with every input of their forms
SaveNext ==
    \/ \E id \in UploadTabs \cup {"DASHBOARD"} : SaveSetActiveTab(id)
    \/ OpenNew
    \/ CancelNew
    \/ \E text \in SaveTexts : SetText(text)
    \/ \E amt \in SaveAmounts : SetAmount(amt)
    \/ \E incl \in BOOLEAN : SetIncluded(incl)
    \/ \E rate \in SaveRates : SetRate(rate)
    \/ \E type \in {SALES, PURCHASE} : SetInvType(type)
    \/ \E ok \in BOOLEAN : InvoicesHandleSave(ok, MaxSaves)
    \/ \E ok \in BOOLEAN : ExpensesHandleSave(ok, MaxSaves)
    \/ \E ok \in BOOLEAN : InvestmentsHandleSave(ok, MaxSaves)
    \/ \E k \in 1..(MaxSaves + 1), ok \in BOOLEAN : MarkPaid(k, ok)

SpecSave == UploadInit /\ [][SaveNext]_vars

(***************************************************************************)
(* SpecQuarters: calculate applied, for each of the four quarters of a     *)
(* year, to one sales invoice and one expense of the same date, for every  *)
(* date string of two years with a month 01..12 and a day 01..31.          *)
(***************************************************************************)
QuarterYears == {2024, 2025}

\* one sales invoice with a line of 100 at 21%
QuarterInvoices(date) ==
    <<[type |-> SALES, status |-> PAID, date |-> date, lines |-> <<Line(100, 21)>>]>>

\* one expense with 10 of VAT
QuarterExpenses(date) == <<[date |-> date, amountExcl |-> 50, vatAmount |-> 10]>>

QuartersInit ==
    /\ qDate \in {IsoDate(y, m, d) : y \in QuarterYears, m \in 1..12, d \in 1..31}
    /\ qYear \in QuarterYears
    /\ qReports = None
    /\ KiaIdle
    /\ BookIdle
    /\ AppIdle
    /\ CompanyIdle
    /\ FormIdle
    /\ RunIdle
    /\ CalcIdle
    /\ SaveIdle
    /\ AdviceIdle

\* the VAT return of each option of the quarter select is calculated
QuartersCalculate ==
    /\ qReports = None
    /\ qReports' = Some([q \in 1..Len(QUARTERS) |->
                            Get(calculate(QuarterInvoices(qDate), QuarterExpenses(qDate),
                                          <<>>, qYear, QUARTERS[q].id)).report])
    /\ UNCHANGED <<qDate, qYear>>
    /\ UNCHANGED <<kiaVars, bookVars, appVars, companyVars, formVars, besidesQuarter>>

QuartersNext == QuartersCalculate

SpecQuarters == QuartersInit /\ [][QuartersNext]_vars

(***************************************************************************)
(* C21 (SpecRuns): the summary is always the initial record or what        *)
(* loadSummary yields on the stored invoices, expenses and investments     *)
(* with a stored or absent correction, never a mixture; a step in which    *)
(* the invoices, expenses or investments fetch of a run fails leaves the   *)
(* summary as it is; a run whose settings fetch fails is completed with a  *)
(* manualCorrection of 0.                                                  *)
(***************************************************************************)
SummaryNeverPartial ==
    /\ [](\/ summary = InitialSummary
          \/ \E c \in StoreCorrections :
                 summary = loadSummary(invoices, expenses, investments, c))
    /\ [][/\ event' = "reject" => summary' = summary
          /\ (event' = "settingsError" /\ Len(pending') < Len(pending)) =>
                 summary' = loadSummary(invoices, expenses, investments, None)]_vars

\* a run has just been rejected while another is in flight, and the summary held is
\* that of an earlier run
SummaryNeverPartialWitness ==
    /\ event = "reject"
    /\ pending # <<>>
    /\ summary # InitialSummary
    /\ summary.revenue = 350 * Scale

\* C21 as stated: a step in which any of the four fetches fails leaves the summary as
\* it is
SummaryKeptOnAnyFailure ==
    [][event' \in {"reject", "settingsError"} => summary' = summary]_vars

(***************************************************************************)
(* C24 (SpecRaces) as stated: when a session is held and no run is in      *)
(* flight, the summary is what loadSummary yields on the data stored now,  *)
(* which is what the run started last was started for.                     *)
(***************************************************************************)
LatestRunWins ==
    (session /\ pending = <<>>) =>
        summary = loadSummary(invoices, expenses, investments, correctionSetting)

\* all runs have completed without an error, a correction of 250 is stored, and the
\* summary set last is that of a run whose settings query was answered before the write
StaleRunWins ==
    /\ session
    /\ pending = <<>>
    /\ event = "set"
    /\ correctionSetting = Some(250)
    /\ coCorrection = Some(Fin(250 * Scale))
    /\ summary.revenue = 350 * Scale
    /\ summary.manualCorrection = 0

(***************************************************************************)
(* C23 (SpecCalc) as stated: when no calculate run is in flight, the       *)
(* report held is that of the selected year and quarter, and the KIA       *)
(* figures are those of the selected year.                                 *)
(***************************************************************************)
ReportOfSelection ==
    (calcs = <<>> /\ report # None) =>
        /\ Get(report).year = year
        /\ Get(report).period = <<81>> \o NumToStr(quarter)
        /\ kiaStats = Some(Get(calculate(invoices, expenses, investments, year,
                                         quarter)).kiaStats)

\* all runs have finished, 2025 and the second quarter are selected, and the report
\* and the KIA figures held are those of the first quarter of 2024
StaleReportShown ==
    /\ calcs = <<>>
    /\ year = 2025
    /\ quarter = 2
    /\ report # None
    /\ Get(report).year = 2024
    /\ Get(report).period = <<81, 49>>
    /\ Get(kiaStats).total = 3000

\* revenue and vatPayable of the summary loadSummary yields on a table of invoices
SalesFigures(rows) ==
    LET f == loadSummary(rows, expenses, investments, correctionSetting)
    IN  <<f.revenue, f.vatPayable>>

(***************************************************************************)
(* C22 (SpecUpload): a save of the invoice form appends one invoice with   *)
(* status DRAFT and one line, at the rate of the form, of the amount typed *)
(* when it excludes VAT and of amount / (1 + rate/100) when it includes    *)
(* VAT, and the revenue and vatPayable loadSummary yields are the same     *)
(* with and without it; marking a DRAFT sales invoice paid raises the      *)
(* revenue loadSummary yields by the amount of its line and the vatPayable *)
(* by amount x rate / 100; every tab change sets the summary to what       *)
(* loadSummary yields on the stored data.                                  *)
(***************************************************************************)
UploadedDraftCountsWhenPaid ==
    [][/\ Len(invoices') = Len(invoices) + 1 =>
              LET row == invoices'[Len(invoices')]
              IN  /\ row.status = DRAFT
                  /\ row.type = SALES
                  /\ Len(row.lines) = 1
                  /\ row.lines[1].vatRate = formRate
                  /\ IF formIncluded
                     THEN row.lines[1].amount * (100 + formRate) = formAmount.num * 100
                     ELSE row.lines[1].amount = formAmount.num
                  /\ SalesFigures(invoices') = SalesFigures(invoices)
       /\ \A k \in DOMAIN invoices :
              (invoices[k].status = DRAFT /\ invoices'[k].status = PAID) =>
                  LET line == invoices[k].lines[1]
                  IN  /\ SalesFigures(invoices')[1] =
                             SalesFigures(invoices)[1] + line.amount * Scale
                      /\ SalesFigures(invoices')[2] * 100 =
                             SalesFigures(invoices)[2] * 100
                                 + line.amount * line.vatRate * Scale
       /\ activeTab' # activeTab =>
              summary' = loadSummary(invoices', expenses', investments', correctionSetting')
      ]_vars

\* on the dashboard after two uploads of 121 including 21% VAT, one marked paid: with the
\* stored invoice of 100 the revenue is 200 and the VAT payable 42
UploadedDraftCountsWhenPaidWitness ==
    /\ activeTab = "DASHBOARD"
    /\ Len(invoices) = 3
    /\ invoices[1].status # DRAFT
    /\ invoices[2].status = PAID
    /\ invoices[2].lines = <<Line(100, 21)>>
    /\ invoices[3].status = DRAFT
    /\ invoices[3].lines = <<Line(100, 21)>>
    /\ summary.revenue = 200 * Scale
    /\ summary.vatPayable = 42 * Scale

(***************************************************************************)
(* C28 (SpecUpload): no step removes or reorders a stored invoice, and the *)
(* status of each either stays what it is or goes from a status other than *)
(* PAID to PAID: a PAID invoice stays PAID and an invoice that is not      *)
(* DRAFT never becomes DRAFT; new invoices are created as DRAFT.           *)
(***************************************************************************)
StatusOnlyMovesToPaid ==
    [][/\ Len(invoices') >= Len(invoices)
       /\ \A k \in DOMAIN invoices :
              \/ invoices'[k] = invoices[k]
              \/ /\ invoices[k].status # PAID
                 /\ invoices'[k] = [invoices[k] EXCEPT !.status = PAID]
       /\ \A k \in DOMAIN invoices' : k \notin DOMAIN invoices => invoices'[k].status = DRAFT
      ]_vars

\* an invoice that was sent or overdue and an uploaded one have both been marked paid,
\* and the list shows no action for them
StatusOnlyMovesToPaidWitness ==
    /\ activeTab = "INVOICES"
    /\ view = "LIST"
    /\ Len(invoices) = 2
    /\ invoices[1].status = PAID
    /\ invoices[2].status = PAID
    /\ invoices[2].lines = <<Line(121, 0)>>
    /\ listInvoices = invoices
    /\ ~ENABLED MarkPaid(1, TRUE)
    /\ ~ENABLED MarkPaid(2, TRUE)

(***************************************************************************)
(* C29 (SpecSave): a save of the expense, investment or invoice form whose *)
(* description (company, for an invoice) is empty or whose amount is 0 or  *)
(* NaN is rejected: the stored data, the form and the view, which is NEW,  *)
(* are left as they are.                                                   *)
(***************************************************************************)
RejectedSaveChangesNothing ==
    [][(/\ saveOutcome' # "none"
        /\ (formText = "" \/ formAmount = NaN \/ formAmount = Frac(0, 1))) =>
           /\ saveOutcome' = "rejected"
           /\ view = "NEW"
           /\ UNCHANGED <<storeVars, activeTab, view, formText, formAmount, formIncluded,
                          formRate, invType>>
      ]_vars

\* a save of the expense form with a description and an empty amount has been rejected
RejectedSaveChangesNothingWitness ==
    /\ saveOutcome = "rejected"
    /\ activeTab = "EXPENSES"
    /\ view = "NEW"
    /\ formText = "x"
    /\ formAmount = NaN
    /\ formRate = 0
    /\ expenses = <<>>

(***************************************************************************)
(* C25 (SpecKia): the deduction computed for a total, and the one computed *)
(* for the euro before it, lie between 0 and KIA_FIXED_MID (19535 euros).  *)
(***************************************************************************)
KiaWithinBounds ==
    /\ kiaOut # None => (0 <= Get(kiaOut) /\ Get(kiaOut) <= 19535 * Scale)
    /\ kiaPrev # None => (0 <= Get(kiaPrev) /\ Get(kiaPrev) <= 19535 * Scale)

\* the last euro of the reducing bracket: the deduction is 1.0184, down from 1.0940
KiaWithinBoundsWitness ==
    /\ total = KIA_BRACKET_3_MAX
    /\ kiaPrev = Some(10940)
    /\ kiaOut = Some(10184)

(***************************************************************************)
(* C26 (SpecBook) as stated: for an investment whose residual value is at  *)
(* most its purchase value, the book value computed at any instant, before *)
(* or after the acquisition date, is at most the purchase value.           *)
(***************************************************************************)
BookAtMostPurchase ==
    (bookOut # None /\ Get(bookInv).residualValue <= Get(bookInv).purchaseValue) =>
        FracLe(Get(bookOut), Frac(Get(bookInv).purchaseValue, 1))

\* an investment of 1000 with residual value 100 over 5 years, acquired on 2024-02-29
\* and valued on an instant before that date: the book value is above 1000
BookAbovePurchase ==
    /\ bookOut # None
    /\ Get(bookInv) = [date |-> IsoDate(2024, 2, 29), purchaseValue |-> 1000,
                       residualValue |-> 100, lifespanYears |-> 5]
    /\ bookNow < DateGetTime(IsoDate(2024, 2, 29))
    /\ bookNow = DateGetTime(IsoDate(2020, 1, 1))
    /\ ~FracLe(Get(bookOut), Frac(1000, 1))

(***************************************************************************)
(* C27 (SpecQuarters): an invoice line and an expense dated in the year of *)
(* the returns are counted in the return of exactly one quarter, the one   *)
(* of the calendar that holds the month of the date, and in no return of   *)
(* another year.                                                           *)
(***************************************************************************)
QuartersPartitionYear ==
    qReports # None =>
        LET counted == {q \in 1..4 : Get(qReports)[q].turnoverHigh = 100 * Scale
                                     /\ Get(qReports)[q].vatDeductible = 10 * Scale}
            empty   == {q \in 1..4 : Get(qReports)[q].turnoverHigh = 0
                                     /\ Get(qReports)[q].vatDeductible = 0}
        IN  /\ counted \cup empty = 1..4
            /\ IF YearOf(qDate) = qYear
               THEN counted = {(MonthOf(qDate) + 2) \div 3}
               ELSE counted = {}

\* the 31st of the last month of the third quarter is counted in the third quarter
QuartersPartitionYearWitness ==
    /\ qReports # None
    /\ qDate = IsoDate(2025, 9, 31)
    /\ qYear = 2025
    /\ Get(qReports)[3].turnoverHigh = 100 * Scale
    /\ Get(qReports)[4].turnoverHigh = 0

(***************************************************************************)
(* geminiService: the client made when the module is loaded, and           *)
(* getFinancialAdvice.  A call that reaches generateContent stays in       *)
(* flight until the API answers it; the answer either throws or is a       *)
(* response whose text is undefined, empty or an advice.                   *)
(***************************************************************************)
MaxAdvice == 2

\* process.env of the page: None where process is undefined or reading it throws,
\* otherwise Some(API_KEY), '' standing for a key that is not set
AdviceEnvs == {None, Some(""), Some("key")}

\* getApiKey(): process.env.API_KEY || '', and '' without a process
getApiKey(env) == IF env = None THEN "" ELSE Get(env)

\* the client after the guarded initialisation: null without a key or when
\* the constructor throws
aiInit(API_KEY, ctorThrows) ==
    IF API_KEY # "" /\ ~ctorThrows THEN Some([apiKey |-> API_KEY]) ELSE None

\* the summaries and contexts getFinancialAdvice is called with
AdviceSummaries ==
    {InitialSummary,
     loadSummary(LedgerInvoices, LedgerExpenses, StoreInvestments, None),
     loadSummary(<<>>, LedgerExpenses, <<>>, None)}
AdviceContexts == {"", "Quick scan"}

\* what a generateContent call comes to: it throws (ok = FALSE), or it yields
\* a response whose text is undefined (None), '' or an advice
AdviceAnswers ==
    {[ok |-> FALSE, text |-> None], [ok |-> TRUE, text |-> None],
     [ok |-> TRUE, text |-> Some("")], [ok |-> TRUE, text |-> Some("Advies")]}

\* Number.prototype.toFixed(2) of an amount in ticks: the sign, the whole
\* euros, a point and two digits, a half cent rounded away from zero
toFixed(t) ==
    LET m == IF t < 0 THEN -t ELSE t
        cents == (m + 50) \div 100
    IN  (IF t < 0 THEN <<45>> ELSE <<>>)
            \o NumToStr(cents \div 100) \o <<46>> \o Pad2(cents % 100)

\* the values the template of the prompt is filled with
AdvicePrompt(s, context) ==
    [revenue |-> toFixed(s.revenue), expenses |-> toFixed(s.expenses),
     investments |-> toFixed(s.investments), profit |-> toFixed(s.profit),
     vatPayable |-> toFixed(s.vatPayable), vatDeductible |-> toFixed(s.vatDeductible),
     vatTotal |-> toFixed(s.vatTotal), context |-> context]

NoClientMessage == "Gemini API key niet gevonden of geconfigureerd."
NoAdviceMessage == "Geen advies gegenereerd."
AdviceErrorMessage == "Er is een fout opgetreden bij het ophalen van advies."

DropAdvice(k) ==
    [i \in 1..(Len(adviceCalls) - 1) |->
        IF i < k THEN adviceCalls[i] ELSE adviceCalls[i + 1]]

\* getFinancialAdvice up to its await: without a client the promise is
\* fulfilled with the message at once, otherwise the prompt is built and
\* handed to generateContent
getFinancialAdvice(s, context) ==
    /\ IF ai = None
       THEN /\ adviceSettled' = Some([state |-> "fulfilled", value |-> NoClientMessage,
                                      response |-> None])
            /\ UNCHANGED adviceCalls
       ELSE /\ Len(adviceCalls) < MaxAdvice
            /\ adviceCalls' = Append(adviceCalls,
                                     [model |-> "gemini-2.5-flash",
                                      contents |-> AdvicePrompt(s, context)])
            /\ UNCHANGED adviceSettled
    /\ UNCHANGED <<ai, kiaVars, bookVars, appVars, companyVars, formVars, besidesAdvice>>

\* Faulty variant of AdviceAnswered: the text of the response is returned as it is
AdviceAnswered_noFallback(k, r) ==
    /\ k \in DOMAIN adviceCalls
    /\ adviceSettled' =
           Some([state |-> "fulfilled",
                 value |-> IF ~r.ok THEN AdviceErrorMessage
                           ELSE IF r.text = None THEN NoAdviceMessage
                           ELSE Get(r.text),
                 response |-> Some(r)])
    /\ adviceCalls' = DropAdvice(k)
    /\ UNCHANGED <<ai, kiaVars, bookVars, appVars, companyVars, formVars, besidesAdvice>>

\* getFinancialAdvice from its await on: return response.text || "Geen
\* advies gegenereerd.", and the error message from the catch
AdviceAnswered(k, r) ==
    /\ k \in DOMAIN adviceCalls
    /\ adviceSettled' =
           Some([state |-> "fulfilled",
                 value |-> IF ~r.ok THEN AdviceErrorMessage
                           ELSE IF r.text = None \/ r.text = Some("") THEN NoAdviceMessage
                           ELSE Get(r.text),
                 response |-> Some(r)])
    /\ adviceCalls' = DropAdvice(k)
    /\ UNCHANGED <<ai, kiaVars, bookVars, appVars, companyVars, formVars, besidesAdvice>>

AdviceInit ==
    /\ ai \in {aiInit(getApiKey(env), ctorThrows) : env \in AdviceEnvs, ctorThrows \in BOOLEAN}
    /\ adviceCalls = <<>>
    /\ adviceSettled = None
    /\ KiaIdle
    /\ BookIdle
    /\ AppIdle
    /\ CompanyIdle
    /\ FormIdle
    /\ RunIdle
    /\ CalcIdle
    /\ SaveIdle
    /\ QuarterIdle

AdviceNext ==
    \/ \E s \in AdviceSummaries, context \in AdviceContexts : getFinancialAdvice(s, context)
    \/ \E k \in 1..MaxAdvice, r \in AdviceAnswers : AdviceAnswered(k, r)

SpecAdvice == AdviceInit /\ [][AdviceNext]_vars

(***************************************************************************)
(* C30: getFinancialAdvice never fails.  Whenever the promise of a call    *)
(* has settled it is fulfilled, never rejected, with a string that is not  *)
(* empty: the fixed message about the key when there is no client, the     *)
(* fixed error message when the API call threw, the fixed message that no  *)
(* advice was generated when the text of the response is undefined or      *)
(* empty, and the text of the response otherwise.                          *)
(***************************************************************************)
AdviceNeverFails ==
    adviceSettled # None =>
        LET o == Get(adviceSettled)
        IN  /\ o.state = "fulfilled"
            /\ o.value # ""
            /\ o.response = None => o.value = NoClientMessage
            /\ o.response # None =>
                   LET r == Get(o.response)
                   IN  o.value = (IF ~r.ok THEN AdviceErrorMessage
                                  ELSE IF r.text = None THEN NoAdviceMessage
                                  ELSE IF Get(r.text) = "" THEN NoAdviceMessage
                                  ELSE Get(r.text))

\* a call whose response carries an empty text has settled with the fallback
\* while another call is still in flight
AdviceNeverFailsWitness ==
    /\ adviceSettled = Some([state |-> "fulfilled", value |-> NoAdviceMessage,
                             response |-> Some([ok |-> TRUE, text |-> Some("")])])
    /\ Len(adviceCalls) = 1
    /\ adviceCalls[1].contents.profit = <<45>> \o toFixed(SumField(LedgerExpenses, "amountExcl") * Scale)

====
